---- MODULE Spec2Model ----
(***************************************************************************)
(* The Suggestion Tracking Engine of the inline autocomplete overlay:      *)
(* InputCursorTracker (contentScript/cursorTracker/inputCursorTracker.ts), *)
(* the suggestion service client with its abort handle and cache           *)
(* (utils/llm.ts, utils/cache.ts) and the flat-value adapter               *)
(* (editorAdapters/HtmlInputAdapter.ts), run by the page's event loop.     *)
(*                                                                         *)
(* One step of the model is one task of the event loop: a DOM event, a     *)
(* timer callback or the settlement of a service call, together with all   *)
(* the microtasks (promise continuations) it causes.                       *)
(***************************************************************************)
EXTENDS Integers, Sequences, FiniteSets, TLC

\* ------------------------------------------------------------------ bounds
\* Longest text the user types into a surface (an accepted suggestion may
\* add to it).
MaxLen == 4
\* Service calls in flight at once, the aborted ones that have not yet
\* rejected included.
MaxCalls == 2
\* Debounce timers pending at once.
MaxTimerIds == 2
\* Results the service returns while the cache holds fewer than this many.
MaxCached == 1
\* Context retries pending at once.
MaxRetryTimers == 1
\* Largest maxSize a SuggestionCache exercised on its own is built with.
MaxSize == 2
\* Promises handed to setPromise and not settled yet.
MaxPromises == 1
\* Adapters registered with an EditorAdapterRegistry exercised on its own.
MaxAdapters == 3
\* Longest value of an input exercised on its own before an insertion.
MaxValue == 2
\* Lines (.cm-line elements) of an Overleaf editor exercised on its own.
MaxLines == 2
\* Child nodes of a Gmail compose body exercised on its own.
MaxNodes == 2
\* Rewrites one CommandView exercised on its own asks for.
MaxRewrites == 2

\* ------------------------------------------------------- program constants
TYPE_DELAY_MS == 300
SETTLE_DELAY_MS == 150
RETRY_DELAY_MS == 200
PROBE_DELAY_MS == 100
MIN_TEXT_LENGTH == 3
CACHE_MAX_SIZE == 100

\* One tick of the model's clock is 50 ms, the common divisor of the delays.
Ticks(ms) == ms \div 50

\* ------------------------------------------------------------- the page
\* Two editable surfaces (textareas, handled by HtmlInputAdapter); "body"
\* stands for every element no adapter handles (the body, the overlay's
\* shadow host); "null" is the null reference.
Elements == {"e1", "e2"}
Body == "body"
NoElement == "null"
NoAdapter == "none"

\* Text is a sequence of characters; the user types "a", the service
\* suggests "a".
EmptyText == << >>
TypedChar == "a"
Suggestions == { <<"a">> }
Domain == "host"

\* String.prototype.slice(from, to) for 0 <= from, to.
Slice(text, from, to) == SubSeq(text, from + 1, to)

\* String.prototype.trim(): leading and trailing white space removed.
RECURSIVE TrimLeft(_)
TrimLeft(text) ==
  IF text # << >> /\ Head(text) = " " THEN TrimLeft(Tail(text)) ELSE text

RECURSIVE TrimRight(_)
TrimRight(text) ==
  IF text # << >> /\ text[Len(text)] = " "
  THEN TrimRight(SubSeq(text, 1, Len(text) - 1))
  ELSE text

Trim(text) == TrimRight(TrimLeft(text))

Min(a, b) == IF a < b THEN a ELSE b

\* ------------------------------------------------------------ variables
VARIABLES
  \* InputCursorTracker
  focusedElement,        \* tracked surface, or NoElement
  currentAdapter,        \* adapter id, or NoAdapter
  cursorData,            \* << >> (undefined) or <<CursorPosition>>
  currentSuggestion,     \* text
  suggestionTimeout,     \* timer handle, 0 for null
  isLoadingSuggestion,
  isInsertingSuggestion,
  isCommandMode,
  isVisible,
  error,
  \* utils/llm.ts
  currentAbortController, \* handle of a controller, 0 for null
  suggestionCache,        \* sequence of [key, result], in insertion order
  calls,                  \* service calls in flight: [id, context, aborted]
  \* the page
  timers,                 \* pending timers: [id, kind, left, context]
  activeElement,          \* document.activeElement
  surface,                \* per element: value and native selection
  inDom,                  \* elements attached and visible
  \* a component exercised on its own (cache, registry, adapter)
  unit                    \* the component's state, NoUnit in the page

tracker == << focusedElement, currentAdapter, cursorData, currentSuggestion,
              suggestionTimeout, isLoadingSuggestion, isInsertingSuggestion,
              isCommandMode, isVisible, error, currentAbortController,
              suggestionCache, calls, timers, activeElement, surface, inDom >>

vars == << tracker, unit >>

NoUnit == [ component |-> "none" ]

\* The whole state as one record, so that a handler is a function from
\* state to state and handlers compose as they call each other.
World ==
  [ focusedElement |-> focusedElement, currentAdapter |-> currentAdapter,
    cursorData |-> cursorData, currentSuggestion |-> currentSuggestion,
    suggestionTimeout |-> suggestionTimeout,
    isLoadingSuggestion |-> isLoadingSuggestion,
    isInsertingSuggestion |-> isInsertingSuggestion,
    isCommandMode |-> isCommandMode, isVisible |-> isVisible,
    error |-> error, currentAbortController |-> currentAbortController,
    suggestionCache |-> suggestionCache, calls |-> calls, timers |-> timers,
    activeElement |-> activeElement, surface |-> surface, inDom |-> inDom ]

Becomes(w) ==
  /\ focusedElement' = w.focusedElement
  /\ currentAdapter' = w.currentAdapter
  /\ cursorData' = w.cursorData
  /\ currentSuggestion' = w.currentSuggestion
  /\ suggestionTimeout' = w.suggestionTimeout
  /\ isLoadingSuggestion' = w.isLoadingSuggestion
  /\ isInsertingSuggestion' = w.isInsertingSuggestion
  /\ isCommandMode' = w.isCommandMode
  /\ isVisible' = w.isVisible
  /\ error' = w.error
  /\ currentAbortController' = w.currentAbortController
  /\ suggestionCache' = w.suggestionCache
  /\ calls' = w.calls
  /\ timers' = w.timers
  /\ activeElement' = w.activeElement
  /\ surface' = w.surface
  /\ inDom' = w.inDom
  /\ unit' = unit

\* What a handler does besides changing the state is recorded in the field
\* fx of the state it works on: whether the overlay was rendered, the
\* context a suggestion was requested for, the insertion made into a
\* surface and whether the service was called. Begin is the state at the
\* start of a step, when none of this has happened yet.
NoFx ==
  [ render |-> FALSE, request |-> << >>, insert |-> << >>, called |-> FALSE ]

Begin == [ fx |-> NoFx ] @@ World

\* ------------------------------------------------- HtmlInputAdapter (reads)
\* Page text that precedes the element in the document.
getPageContentBefore(el) == IF el = "e1" THEN "P1" ELSE "P2"

\* HtmlInputAdapter.canHandle by way of editorRegistry.findAdapter: the
\* surfaces are textareas, everything else is handled by no adapter.
findAdapter(el) == IF el \in Elements THEN "html-input" ELSE NoAdapter

\* selectionStart and selectionEnd of an input whose type has no selection
\* (null).
NoSelection == -1

\* getEditorContext slicing textAfter from the start of the selection.
getEditorContextFromStart(w, el) ==
  LET input == w.surface[el]
      s == IF input.selectionStart = NoSelection THEN 0
           ELSE input.selectionStart
      e == IF input.selectionEnd = NoSelection THEN 0 ELSE input.selectionEnd
  IN  [ element |-> el,
        textBefore |-> Slice(input.value, 0, s),
        textAfter |-> Slice(input.value, s, Len(input.value)),
        textSelected |-> IF s # e THEN Slice(input.value, s, e)
                         ELSE EmptyText,
        fullText |-> input.value,
        selectionStart |-> s,
        selectionEnd |-> e,
        pageContentBefore |-> getPageContentBefore(el) ]

getEditorContext(w, el) ==
  LET input == w.surface[el]
      s == IF input.selectionStart = NoSelection THEN 0
           ELSE input.selectionStart
      e == IF input.selectionEnd = NoSelection THEN 0 ELSE input.selectionEnd
      hasSelection == s # e
  IN  [ element |-> el,
        textBefore |-> Slice(input.value, 0, s),
        textAfter |-> Slice(input.value, IF hasSelection THEN e ELSE s,
                            Len(input.value)),
        textSelected |-> IF hasSelection THEN Slice(input.value, s, e)
                         ELSE EmptyText,
        fullText |-> input.value,
        selectionStart |-> s,
        selectionEnd |-> e,
        pageContentBefore |-> getPageContentBefore(el) ]

\* The caret's screen position: the column of the selection start in the
\* row of the element.
getCursorPosition(w, el) ==
  [ x |-> w.surface[el].selectionStart, y |-> IF el = "e1" THEN 1 ELSE 2 ]

\* The CursorPosition the tracker keeps (updateCursor, onKeyDown).
CursorPositionOf(position, context) ==
  [ x |-> position.x, y |-> position.y,
    textBefore |-> context.textBefore,
    textAfter |-> context.textAfter,
    textSelected |-> context.textSelected,
    selectionStart |-> context.selectionStart,
    selectionEnd |-> context.selectionEnd,
    fullText |-> context.fullText,
    pageContentBefore |-> context.pageContentBefore ]

\* The SuggestionContext the debounce callback builds from the context
\* captured by updateCursor.
SuggestionContextOf(context) ==
  [ textBefore |-> context.textBefore,
    textAfter |-> context.textAfter,
    textSelected |-> context.textSelected,
    fullText |-> context.fullText,
    pageContentBefore |-> << "website", Domain, context.pageContentBefore >> ]

\* ------------------------------------------------------- SuggestionCache
\* JSON.stringify of the key object: its fields, in the order they were
\* written.
\* JSON.stringify of a string: quoted, the quote and the backslash escaped.
RECURSIVE Escaped(_)
Escaped(text) ==
  IF text = << >> THEN << >>
  ELSE (IF Head(text) \in { "\"", "\\" }
        THEN << "\\", Head(text) >>
        ELSE << Head(text) >>) \o Escaped(Tail(text))

JSONString(text) == << "\"" >> \o Escaped(text) \o << "\"" >>

Member(name, text) == JSONString(<< name >>) \o << ":" >> \o JSONString(text)

\* JSON.stringify of a request: its members in the order of the object
\* literal that updateCursor builds.
stringify(context) ==
  << "{" >> \o Member("textBefore", context.textBefore)
    \o << "," >> \o Member("textAfter", context.textAfter)
    \o << "," >> \o Member("textSelected", context.textSelected)
    \o << "," >> \o Member("fullText", context.fullText)
    \o << "," >> \o Member("pageContentBefore", context.pageContentBefore)
    \o << "}" >>

\* The members run together, unquoted.
generateKeyJoined(context) ==
  context.textBefore \o context.textAfter \o context.textSelected
    \o context.fullText \o context.pageContentBefore

generateKey(context) == stringify(context)

\* Position of the entry for cacheKey in the Map, 0 when absent.
cacheIndex(cache, cacheKey) ==
  IF \E i \in 1..Len(cache) : cache[i].key = cacheKey
  THEN CHOOSE i \in 1..Len(cache) : cache[i].key = cacheKey
  ELSE 0

\* Map.set: an existing key keeps its place, a new one goes last.
mapSet(cache, cacheKey, entry) ==
  LET i == cacheIndex(cache, cacheKey)
  IN  IF i = 0 THEN Append(cache, entry) ELSE [cache EXCEPT ![i] = entry]

\* cleanup dropping the newest entries instead of the oldest.
cleanupNewest(cache, maxSize) ==
  IF Len(cache) <= maxSize THEN cache ELSE SubSeq(cache, 1, maxSize)

cleanup(cache, maxSize) ==
  IF Len(cache) <= maxSize THEN cache
  ELSE SubSeq(cache, Len(cache) - maxSize + 1, Len(cache))

\* get: << >> for undefined, <<result>> for a settled entry.
cacheGet(cache, context) ==
  LET i == cacheIndex(cache, generateKey(context))
  IN  IF i = 0 THEN << >> ELSE cache[i].result

\* get of an entry without a result: the handle of its promise, 0 for
\* undefined.
cacheGetPromise(cache, context) ==
  LET i == cacheIndex(cache, generateKey(context))
  IN  IF i = 0 \/ cache[i].result # << >> THEN 0 ELSE cache[i].promise

cacheSet(cache, maxSize, context, value) ==
  LET cacheKey == generateKey(context)
  IN  cleanup(mapSet(cache, cacheKey,
                     [ key |-> cacheKey, result |-> << value >>,
                       promise |-> 0 ]),
              maxSize)

\* setPromise up to the settlement of the promise.
setPromise(cache, maxSize, context, promise) ==
  LET cacheKey == generateKey(context)
  IN  cleanup(mapSet(cache, cacheKey,
                     [ key |-> cacheKey, result |-> << >>,
                       promise |-> promise ]),
              maxSize)

\* The then-callback of setPromise: the entry now under the key, if any,
\* takes the result and loses its promise.
promiseThen(cache, cacheKey, result) ==
  LET i == cacheIndex(cache, cacheKey)
  IN  IF i = 0 THEN cache
      ELSE [cache EXCEPT ![i] = [ key |-> cacheKey, result |-> << result >>,
                                  promise |-> 0 ]]

\* The catch-callback leaving the entry in place.
promiseCatchKept(cache, cacheKey) == cache

\* The catch-callback of setPromise: Map.delete of the key.
promiseCatch(cache, cacheKey) ==
  LET i == cacheIndex(cache, cacheKey)
  IN  IF i = 0 THEN cache
      ELSE SubSeq(cache, 1, i - 1) \o SubSeq(cache, i + 1, Len(cache))

\* ------------------------------------------------------------ utils/llm.ts
Response(text, isError, isCancelled) ==
  [ suggestion |-> text, error |-> isError, cancelled |-> isCancelled ]

\* An abort signal that the service call does not observe.
abortIgnored(w, id) == w

\* AbortController.abort() on the controller of call id: a call that has
\* already settled is not affected.
abort(w, id) ==
  [w EXCEPT !.calls =
     { IF c.id = id THEN [c EXCEPT !.aborted = TRUE] ELSE c : c \in w.calls }]

cancelCurrentSuggestionRequest(w) ==
  IF w.currentAbortController # 0
  THEN [abort(w, w.currentAbortController) EXCEPT !.currentAbortController = 0]
  ELSE w

\* An AbortController is an opaque object: only its identity is compared.
\* Handles are kept in order of creation, the oldest outstanding call being 1,
\* and the handle of a controller whose call has settled is Settled.
Settled == -1

\* new AbortController() of fetchSuggestion.
FreshCallId(w) == Cardinality(w.calls) + 1

\* The handle of a controller once the call with handle gone has settled.
Renumbered(id, gone) == IF id > gone THEN id - 1 ELSE id

\* ------------------------------------------------------------- the overlay
\* cursorBlock.render: the overlay is given the tracker's fields.
render(w) == [w EXCEPT !.fx.render = TRUE]

\* ------------------------------------------------------ InputCursorTracker
clearTimeout(w, id) == [w EXCEPT !.timers = { t \in w.timers : t.id # id }]

\* Handles are positive and never handed out twice. Only the handle of a
\* debounce timer is kept by the program; the other timers carry 0. The
\* handle of a timer that has run is written Expired: it names no timer.
Expired == -1

FreshTimerId(w) ==
  CHOOSE i \in 1..MaxTimerIds :
    /\ i \notin { t.id : t \in w.timers }
    /\ \A j \in 1..(i - 1) : j \in { t.id : t \in w.timers }

HasFreeTimerId(w) ==
  \E i \in 1..MaxTimerIds : i \notin { t.id : t \in w.timers }

\* window.setTimeout.
setTimeout(w, kind, ms, context) ==
  [w EXCEPT !.timers = @ \cup { [ id |-> IF kind = "debounce"
                                         THEN FreshTimerId(w) ELSE 0,
                                  kind |-> kind,
                                  left |-> Ticks(ms), context |-> context ] }]

\* clearUI leaving the overlay and the mode as they are.
clearUIVisible(w) ==
  render([cancelCurrentSuggestionRequest(w)
            EXCEPT !.currentSuggestion = EmptyText])

\* clearUI leaving the suggestion text in place.
clearUIKeepingSuggestion(w) ==
  LET w1 == cancelCurrentSuggestionRequest(w)
      w2 == [w1 EXCEPT !.isVisible = FALSE,
                       !.isCommandMode = FALSE,
                       !.error = FALSE,
                       !.isLoadingSuggestion = FALSE]
      w3 == IF w2.suggestionTimeout # 0
            THEN [clearTimeout(w2, w2.suggestionTimeout)
                    EXCEPT !.suggestionTimeout = 0]
            ELSE w2
  IN  render(w3)

clearUI(w) ==
  LET w1 == cancelCurrentSuggestionRequest(w)
      w2 == [w1 EXCEPT !.currentSuggestion = EmptyText,
                       !.isVisible = FALSE,
                       !.isCommandMode = FALSE,
                       !.error = FALSE,
                       !.isLoadingSuggestion = FALSE]
      w3 == IF w2.suggestionTimeout # 0
            THEN [clearTimeout(w2, w2.suggestionTimeout)
                    EXCEPT !.suggestionTimeout = 0]
            ELSE w2
  IN  render(w3)

\* reset clearing the element references only.
resetReferences(w) ==
  [w EXCEPT !.focusedElement = NoElement,
            !.currentAdapter = NoAdapter,
            !.cursorData = << >>]

reset(w) ==
  [clearUI(w) EXCEPT !.focusedElement = NoElement,
                     !.currentAdapter = NoAdapter,
                     !.cursorData = << >>]

\* updateCursor; threw says that the adapter call raised an exception.
\* The debounce callback (the closure over context) is TimerFires below.
updateCursor(w, threw) ==
  IF \/ w.focusedElement = NoElement
     \/ w.currentAdapter = NoAdapter
     \/ w.focusedElement \notin w.inDom
  THEN reset(w)
  ELSE IF threw
  THEN setTimeout(w, "retry", RETRY_DELAY_MS, << >>)
  ELSE
    LET position == getCursorPosition(w, w.focusedElement)
        context == getEditorContext(w, w.focusedElement)
        w1 == render([w EXCEPT !.cursorData =
                        << CursorPositionOf(position, context) >>])
        w2 == IF w1.suggestionTimeout # 0
              THEN [clearTimeout(w1, w1.suggestionTimeout)
                      EXCEPT !.suggestionTimeout = Expired]
              ELSE w1
    IN  IF ~w2.isCommandMode
        THEN [setTimeout(w2, "debounce", TYPE_DELAY_MS, << context >>)
                EXCEPT !.suggestionTimeout = FreshTimerId(w2)]
        ELSE w2

onFocusIn(w, el, threw) ==
  IF findAdapter(el) # NoAdapter
  THEN updateCursor([w EXCEPT !.focusedElement = el,
                              !.currentAdapter = findAdapter(el)], threw)
  ELSE w

onFocusOut(w, el) ==
  IF el = w.focusedElement /\ ~w.isCommandMode THEN reset(w) ELSE w

\* onUpdate without the test of isInsertingSuggestion.
onUpdateWhileInserting(w, threw) ==
  IF w.focusedElement # NoElement /\ ~w.isCommandMode
  THEN render(updateCursor([w EXCEPT !.isLoadingSuggestion = FALSE,
                                     !.isVisible = FALSE], threw))
  ELSE w

onUpdate(w, threw) ==
  IF w.focusedElement # NoElement /\ ~w.isInsertingSuggestion
     /\ ~w.isCommandMode
  THEN render(updateCursor([w EXCEPT !.isLoadingSuggestion = FALSE,
                                     !.isVisible = FALSE], threw))
  ELSE w

\* HTMLElement.focus(): moving the focus dispatches focusout on the element
\* that had it and focusin on the new one; a detached element cannot take it.
focus(w, el, threw) ==
  IF w.activeElement = el \/ el \notin w.inDom
  THEN w
  ELSE onFocusIn(onFocusOut([w EXCEPT !.activeElement = el],
                            w.activeElement), el, threw)

\* HtmlInputAdapter.insertText: the selection is replaced by text, the caret
\* is put after it and an input event is dispatched, which the tracker's
\* document listener (onUpdate) receives when the element is attached.
\* via names the adapter method the tracker called.
insertText(w, el, text, threw, via) ==
  LET w1 == focus(w, el, threw)
      input == w1.surface[el]
      s == input.selectionStart
      e == input.selectionEnd
      next == Slice(input.value, 0, s) \o text
                \o Slice(input.value, e, Len(input.value))
      w2 == [w1 EXCEPT
               !.surface[el] = [ value |-> next,
                                 selectionStart |-> s + Len(text),
                                 selectionEnd |-> s + Len(text) ],
               !.fx.insert = << [ element |-> el, start |-> s, end |-> e,
                                  text |-> text, via |-> via ] >>]
  IN  IF el \in w2.inDom THEN onUpdate(w2, threw) ELSE w2

\* HTMLInputElement.setSelectionRange: offsets beyond the value point at its
\* end; an end before the start collapses the selection at the end offset.
setSelectionRange(w, el, start, end) ==
  LET n == Len(w.surface[el].value)
      e == Min(end, n)
      s == IF Min(start, n) >= e THEN e ELSE Min(start, n)
  IN  [w EXCEPT !.surface[el].selectionStart = s,
                !.surface[el].selectionEnd = e]

setCursorAndInsert(w, el, selectionStart, selectionEnd, text, threw) ==
  insertText(setSelectionRange(focus(w, el, threw), el,
                               selectionStart, selectionEnd),
             el, text, threw, "setCursorAndInsert")

\* A tracker that applies every response, the cancelled ones too.
applyResponseAnyway(w, response) ==
  [w EXCEPT
     !.currentSuggestion = response.suggestion,
     !.isLoadingSuggestion = FALSE,
     !.isVisible = (w.focusedElement # NoElement)
                     /\ (response.suggestion # EmptyText \/ response.error),
     !.error = response.error,
     !.fx.render = TRUE]

\* A tracker that hides a failure: the error flag of the response is
\* dropped.
applyResponseQuiet(w, response) ==
  IF response.cancelled
  THEN w
  ELSE render([w EXCEPT
         !.currentSuggestion = response.suggestion,
         !.isLoadingSuggestion = FALSE,
         !.isVisible = (w.focusedElement # NoElement)
                         /\ response.suggestion # EmptyText,
         !.error = FALSE])

\* A tracker that shows the overlay for every response that is not
\* cancelled, whatever it holds.
applyResponseShown(w, response) ==
  IF response.cancelled
  THEN w
  ELSE render([w EXCEPT
         !.currentSuggestion = response.suggestion,
         !.isLoadingSuggestion = FALSE,
         !.isVisible = (w.focusedElement # NoElement),
         !.error = response.error])

\* fetchSuggestion of inputCursorTracker.ts, after the await: the response
\* is applied unless it is flagged cancelled.
applyResponse(w, response) ==
  IF response.cancelled
  THEN w
  ELSE render([w EXCEPT
         !.currentSuggestion = response.suggestion,
         !.isLoadingSuggestion = FALSE,
         !.isVisible = (w.focusedElement # NoElement)
                         /\ (response.suggestion # EmptyText \/ response.error),
         !.error = response.error])

\* A client that caches every result, the cancelled and failed ones too.
cacheResultAnyway(w, context, result) ==
  [w EXCEPT !.suggestionCache = cacheSet(@, CACHE_MAX_SIZE, context, result)]

\* getSuggestion of llm.ts, after the await of fetchSuggestion.
cacheResult(w, context, result) ==
  IF ~result.cancelled /\ ~result.error
  THEN [w EXCEPT !.suggestionCache =
          cacheSet(@, CACHE_MAX_SIZE, context, result)]
  ELSE w

\* fetchSuggestion of llm.ts calling the service for a text of any length.
callServiceAnyLength(w, context) ==
  LET w1 == IF w.currentAbortController # 0
            THEN abort(w, w.currentAbortController)
            ELSE w
  IN  [w1 EXCEPT !.calls = @ \cup { [ id |-> FreshCallId(w1),
                                      context |-> context,
                                      aborted |-> FALSE ] },
                 !.currentAbortController = FreshCallId(w1),
                 !.fx.called = TRUE]

\* fetchSuggestion of llm.ts up to its await: a text too short is answered
\* at once, otherwise the previous controller is aborted and the service is
\* called under a new one.
callService(w, context) ==
  IF Len(Trim(context.textBefore)) < MIN_TEXT_LENGTH
  THEN applyResponse(cacheResult(w, context, Response(EmptyText, FALSE, FALSE)),
                     Response(EmptyText, FALSE, FALSE))
  ELSE LET w1 == IF w.currentAbortController # 0
                 THEN abort(w, w.currentAbortController)
                 ELSE w
       IN  [w1 EXCEPT !.calls = @ \cup { [ id |-> FreshCallId(w1),
                                           context |-> context,
                                           aborted |-> FALSE ] },
                      !.currentAbortController = FreshCallId(w1),
                      !.fx.called = TRUE]

\* getSuggestion of llm.ts up to its await: a cached result is returned,
\* otherwise fetchSuggestion is called.
getSuggestion(w, context) ==
  IF cacheGet(w.suggestionCache, context) # << >>
  THEN applyResponse(w, cacheGet(w.suggestionCache, context)[1])
  ELSE callService(w, context)

\* fetchSuggestion of inputCursorTracker.ts up to its await.
fetchSuggestion(w, context) ==
  getSuggestion(
    cancelCurrentSuggestionRequest(
      render([w EXCEPT !.isLoadingSuggestion = TRUE,
                       !.isVisible = TRUE,
                       !.fx.request = << context >>])),
    context)

\* A settlement whose cleanup clears the abort handle whichever call it
\* belongs to.
settleClearingAny(w, c, outcome) ==
  LET w1 == [w EXCEPT !.calls = { [d EXCEPT !.id = Renumbered(@, c.id)] :
                                    d \in @ \ {c} },
                      !.currentAbortController = 0]
      result == CASE outcome.kind = "suggestion" ->
                       Response(outcome.text, FALSE, FALSE)
                  [] outcome.kind = "notool" -> Response(EmptyText, FALSE, FALSE)
                  [] outcome.kind = "aborted" -> Response(EmptyText, FALSE, TRUE)
                  [] OTHER -> Response(EmptyText, TRUE, FALSE)
  IN  applyResponse(cacheResult(w1, c.context, result), result)

\* The settlement of service call c: fetchSuggestion of llm.ts after its
\* await, then getSuggestion and the tracker's fetchSuggestion after theirs.
settle(w, c, outcome) ==
  LET w1 == [w EXCEPT !.calls = { [d EXCEPT !.id = Renumbered(@, c.id)] :
                                    d \in @ \ {c} },
                      !.currentAbortController =
                        IF @ = c.id THEN Settled
                        ELSE Renumbered(@, c.id)]
      cleared == IF w.currentAbortController = c.id
                 THEN [w1 EXCEPT !.currentAbortController = 0]
                 ELSE w1
      result == CASE outcome.kind = "suggestion" ->
                       Response(outcome.text, FALSE, FALSE)
                  [] outcome.kind = "notool" -> Response(EmptyText, FALSE, FALSE)
                  [] outcome.kind = "aborted" -> Response(EmptyText, FALSE, TRUE)
                  [] OTHER -> Response(EmptyText, TRUE, FALSE)
      w2 == IF outcome.kind = "notool" THEN w1 ELSE cleared
  IN  applyResponse(cacheResult(w2, c.context, result), result)

onKeyDown(w, key, target) ==
  IF key = "k"
  THEN IF w.focusedElement # NoElement
       THEN LET captured ==
                  IF ~w.isCommandMode /\ w.currentAdapter # NoAdapter
                  THEN [w EXCEPT !.cursorData =
                          << CursorPositionOf(
                               getCursorPosition(w, w.focusedElement),
                               getEditorContext(w, w.focusedElement)) >>]
                  ELSE w
            IN  render([captured EXCEPT
                          !.isCommandMode = ~w.isCommandMode,
                          !.isVisible = (w.focusedElement # NoElement)])
       ELSE w
  ELSE IF key = "Escape"
  THEN IF w.isVisible \/ w.isCommandMode
       THEN IF w.isCommandMode
            THEN render([w EXCEPT !.isCommandMode = FALSE,
                                  !.isVisible = FALSE])
            ELSE clearUI(w)
       ELSE w
  ELSE IF /\ key = "Tab"
          /\ w.focusedElement # NoElement
          /\ w.currentAdapter # NoAdapter
          /\ w.currentSuggestion # EmptyText
          /\ ~w.isLoadingSuggestion
          /\ ~w.isCommandMode
          /\ target = w.focusedElement
  THEN setTimeout(
         clearUI(insertText([w EXCEPT !.isInsertingSuggestion = TRUE],
                            w.focusedElement, w.currentSuggestion, FALSE,
                            "insertText")),
         "settle", SETTLE_DELAY_MS, << >>)
  ELSE w

\* The overlay's callbacks (render, onAccept and onReject).
onAccept(w, suggestion, threw) ==
  clearUI(IF w.cursorData # << >> /\ w.focusedElement # NoElement
             /\ w.currentAdapter # NoAdapter
          THEN setCursorAndInsert(w, w.focusedElement,
                                  w.cursorData[1].selectionStart,
                                  w.cursorData[1].selectionEnd,
                                  suggestion, threw)
          ELSE w)

onReject(w) == clearUI(w)

\* The callbacks of the tracker's timers.
timerCallback(w, t, threw) ==
  CASE t.kind = "debounce" ->
         IF w.focusedElement # NoElement /\ w.activeElement = w.focusedElement
         THEN fetchSuggestion(w, SuggestionContextOf(t.context[1]))
         ELSE w
    [] t.kind = "settle" -> [w EXCEPT !.isInsertingSuggestion = FALSE]
    [] t.kind = "retry" ->
         IF w.focusedElement # NoElement /\ w.activeElement = w.focusedElement
         THEN updateCursor(w, threw)
         ELSE w
    [] OTHER -> updateCursor(w, threw)

\* ------------------------------------------------------------ the machine
\* The first surface holds a text long enough to ask the service about, the
\* second one a text that is too short.
InitSurface ==
  [ el \in Elements |->
      IF el = "e1"
      THEN [ value |-> << "a", "a", "a" >>,
             selectionStart |-> 3, selectionEnd |-> 3 ]
      ELSE [ value |-> << "a" >>, selectionStart |-> 1, selectionEnd |-> 1 ] ]

\* The state after the constructor on a page with the given surfaces:
\* render, setupListeners and checkForExistingFocusedElement, which tracks
\* an element that already has the focus and probes its caret after a delay.
InitPage(attached) ==
  /\ activeElement \in {Body, "e1"}
  /\ focusedElement = IF findAdapter(activeElement) # NoAdapter
                      THEN activeElement ELSE NoElement
  /\ currentAdapter = findAdapter(activeElement)
  /\ cursorData = << >>
  /\ currentSuggestion = EmptyText
  /\ suggestionTimeout = 0
  /\ isLoadingSuggestion = FALSE
  /\ isInsertingSuggestion = FALSE
  /\ isCommandMode = FALSE
  /\ isVisible = FALSE
  /\ error = FALSE
  /\ currentAbortController = 0
  /\ suggestionCache = << >>
  /\ calls = {}
  /\ timers = IF findAdapter(activeElement) # NoAdapter
              THEN { [ id |-> 0, kind |-> "probe",
                       left |-> Ticks(PROBE_DELAY_MS), context |-> << >> ] }
              ELSE {}
  /\ surface = InitSurface
  /\ inDom = attached

\* A read of the adapter may throw while the retries pending are fewer than
\* MaxRetryTimers.
MayThrow(threw) ==
  threw => Cardinality({ t \in timers : t.kind = "retry" }) < MaxRetryTimers

\* The user moves the focus to a surface.
FocusInResult(el, threw) == focus(Begin, el, threw)

FocusIn(el, threw) ==
  /\ el \in inDom
  /\ activeElement # el
  /\ HasFreeTimerId(World)
  /\ MayThrow(threw)
  /\ Becomes(FocusInResult(el, threw))

\* The focus leaves the surfaces (to the page or to the overlay).
FocusOutResult ==
  onFocusOut([Begin EXCEPT !.activeElement = Body], activeElement)

FocusOut ==
  /\ activeElement \in Elements
  /\ Becomes(FocusOutResult)

\* The user types a character into the first surface: the selection is
\* replaced and an input event is dispatched.
TypeCharResult(threw) ==
  LET input == surface["e1"]
      s == input.selectionStart
  IN  onUpdate([Begin EXCEPT
                  !.surface["e1"] =
                     [ value |-> Slice(input.value, 0, s) \o << TypedChar >>
                          \o Slice(input.value, input.selectionEnd,
                                   Len(input.value)),
                       selectionStart |-> s + 1,
                       selectionEnd |-> s + 1 ]],
               threw)

TypeChar(threw) ==
  /\ activeElement = "e1"
  /\ "e1" \in inDom
  /\ Len(surface["e1"].value) < MaxLen
  /\ HasFreeTimerId(World)
  /\ MayThrow(threw)
  /\ Becomes(TypeCharResult(threw))

\* A click, selectionchange, scroll or resize event.
UpdateEventResult(threw) == onUpdate(Begin, threw)

UpdateEvent(threw) ==
  /\ HasFreeTimerId(World)
  /\ MayThrow(threw)
  /\ Becomes(UpdateEventResult(threw))

\* A key pressed while the page has the focus; the target of the event is
\* the active element.
KeyDownResult(key) == onKeyDown(Begin, key, activeElement)

KeyDown(key) ==
  /\ key = "Tab" /\ activeElement \in Elements
       => Len(surface[activeElement].value) <= MaxLen
  /\ Becomes(KeyDownResult(key))

\* The user accepts the working suggestion of the command view.
OverlayAcceptResult(text, threw) == onAccept(Begin, text, threw)

OverlayAccept(text, threw) ==
  /\ isCommandMode
  /\ HasFreeTimerId(World)
  /\ focusedElement \in Elements
       => Len(surface[focusedElement].value) <= MaxLen
  /\ MayThrow(threw)
  /\ Becomes(OverlayAcceptResult(text, threw))

\* The user dismisses the command view.
OverlayRejectResult == onReject(Begin)

OverlayReject ==
  /\ isCommandMode
  /\ Becomes(OverlayRejectResult)

\* A timer whose delay has elapsed runs its callback.
TimerFiresResult(t, threw) ==
  timerCallback([Begin EXCEPT !.timers = @ \ {t},
                              !.suggestionTimeout =
                                 IF @ = t.id /\ t.id # 0 THEN Expired ELSE @],
                t, threw)

TimerFires(t, threw) ==
  /\ t \in timers
  /\ t.left = 0
  /\ HasFreeTimerId(World)
  /\ t.kind = "debounce" => Cardinality(calls) < MaxCalls
  /\ MayThrow(threw)
  /\ Becomes(TimerFiresResult(t, threw))

\* 50 ms pass; a timer that is due runs before the clock moves on.
Tick ==
  /\ timers # {}
  /\ \A t \in timers : t.left > 0
  /\ timers' = { [t EXCEPT !.left = @ - 1] : t \in timers }
  /\ UNCHANGED << focusedElement, currentAdapter, cursorData,
                  currentSuggestion, suggestionTimeout, isLoadingSuggestion,
                  isInsertingSuggestion, isCommandMode, isVisible, error,
                  currentAbortController, suggestionCache, calls,
                  activeElement, surface, inDom, unit >>

\* What the service can answer to a call: a suggestion, a message without
\* a tool call, or a failure; an aborted call only rejects.
Outcomes(c) ==
  IF c.aborted
  THEN { [ kind |-> "aborted", text |-> EmptyText ] }
  ELSE { [ kind |-> "failed", text |-> EmptyText ] }
         \cup IF Len(suggestionCache) < MaxCached
              THEN { [ kind |-> "suggestion", text |-> x ] :
                       x \in Suggestions \cup {EmptyText} }
                     \cup { [ kind |-> "notool", text |-> EmptyText ] }
              ELSE {}

\* A service call settles.
RespondResult(c, outcome) == settle(Begin, c, outcome)

Respond(c, outcome) ==
  /\ c \in calls
  /\ outcome \in Outcomes(c)
  /\ Becomes(RespondResult(c, outcome))

\* The page removes the first surface from the document; an element that
\* is removed loses the focus without a focusout event.
Detach ==
  /\ "e1" \in inDom
  /\ inDom' = inDom \ {"e1"}
  /\ activeElement' = IF activeElement = "e1" THEN Body ELSE activeElement
  /\ UNCHANGED << focusedElement, currentAdapter, cursorData,
                  currentSuggestion, suggestionTimeout, isLoadingSuggestion,
                  isInsertingSuggestion, isCommandMode, isVisible, error,
                  currentAbortController, suggestionCache, calls, timers,
                  surface, unit >>

\* One surface, edited by the user, whose adapter always answers.
Init == InitPage({"e1"}) /\ unit = NoUnit

Next ==
  \/ \E el \in Elements : FocusIn(el, FALSE)
  \/ FocusOut
  \/ TypeChar(FALSE)
  \/ UpdateEvent(FALSE)
  \/ \E key \in {"k", "Escape", "Tab"} : KeyDown(key)
  \/ \E text \in Suggestions : OverlayAccept(text, FALSE)
  \/ OverlayReject
  \/ \E t \in timers : TimerFires(t, FALSE)
  \/ Tick
  \/ \E c \in calls : \E outcome \in Outcomes(c) : Respond(c, outcome)

Spec == Init /\ [][Next]_vars

\* Two surfaces whose text the user leaves alone, on a page that may remove
\* the first one and whose adapter may throw.
InitTwo == InitPage(Elements) /\ unit = NoUnit

NextPage ==
  \/ \E el \in Elements : \E threw \in BOOLEAN : FocusIn(el, threw)
  \/ FocusOut
  \/ \E threw \in BOOLEAN : UpdateEvent(threw)
  \/ \E key \in {"k", "Escape"} : KeyDown(key)
  \/ OverlayReject
  \/ \E t \in timers : \E threw \in BOOLEAN : TimerFires(t, threw)
  \/ Tick
  \/ \E c \in calls : \E outcome \in Outcomes(c) : Respond(c, outcome)
  \/ Detach

SpecPage == InitTwo /\ [][NextPage]_vars

\* One surface whose text the user leaves alone, and a service that
\* answers in the end: a call that is outstanding settles, with an answer,
\* a failure or, when it was aborted, the rejection of its request.
\* Nothing is assumed of the user or the timers.
ServiceAnswers ==
  WF_vars(\E c \in calls : \E outcome \in Outcomes(c) : Respond(c, outcome))

NextLive ==
  \/ \E el \in Elements : FocusIn(el, FALSE)
  \/ FocusOut
  \/ UpdateEvent(FALSE)
  \/ \E key \in {"k", "Escape"} : KeyDown(key)
  \/ \E t \in timers : TimerFires(t, FALSE)
  \/ Tick
  \/ \E c \in calls : \E outcome \in Outcomes(c) : Respond(c, outcome)

SpecLive == Init /\ [][NextLive]_vars /\ ServiceAnswers

\* ------------------------------------------------------ destroy()
\* destroy: the debounce timer and the current request are cancelled, the
\* listeners are removed and the overlay's root is unmounted. The timers
\* whose handles the tracker does not keep stay pending.
destroy(w) ==
  cancelCurrentSuggestionRequest(
    IF w.suggestionTimeout # 0 THEN clearTimeout(w, w.suggestionTimeout)
    ELSE w)

\* updateCursor when cursorBlock.render throws, the root being unmounted:
\* the exception leaves clearUI and reset at the render, so that reset
\* does not clear the references, or leaves the try block before the
\* debounce timer is started, and the catch block starts a retry timer.
updateCursorUnmounted(w, threw) ==
  IF \/ w.focusedElement = NoElement
     \/ w.currentAdapter = NoAdapter
     \/ w.focusedElement \notin w.inDom
  THEN setTimeout(clearUI(w), "retry", RETRY_DELAY_MS, << >>)
  ELSE IF threw
  THEN setTimeout(w, "retry", RETRY_DELAY_MS, << >>)
  ELSE setTimeout(
         render([w EXCEPT !.cursorData =
                   << CursorPositionOf(
                        getCursorPosition(w, w.focusedElement),
                        getEditorContext(w, w.focusedElement)) >>]),
         "retry", RETRY_DELAY_MS, << >>)

\* The callbacks of the timers that run after destroy. rootThrows tells
\* whether render on the unmounted root throws or is ignored, which is up
\* to the React build. When it throws no debounce timer is started any
\* more and none is pending.
timerCallbackDestroyed(w, t, threw, rootThrows) ==
  IF ~rootThrows \/ t.kind \in { "debounce", "settle" }
  THEN timerCallback(w, t, threw)
  ELSE IF t.kind = "retry"
            /\ ~(w.focusedElement # NoElement
                   /\ w.activeElement = w.focusedElement)
  THEN w
  ELSE updateCursorUnmounted(w, threw)

\* A tracker on a page with one surface; the React build decides what
\* render on an unmounted root does.
InitDestroy ==
  /\ InitPage({ "e1" })
  /\ \E rootThrows \in BOOLEAN :
       unit = [ component |-> "tracker", destroyed |-> FALSE,
                rootThrows |-> rootThrows ]

Destroy ==
  /\ ~unit.destroyed
  /\ timers' = destroy(Begin).timers
  /\ calls' = destroy(Begin).calls
  /\ currentAbortController' = destroy(Begin).currentAbortController
  /\ unit' = [unit EXCEPT !.destroyed = TRUE]
  /\ UNCHANGED << focusedElement, currentAdapter, cursorData,
                  currentSuggestion, suggestionTimeout, isLoadingSuggestion,
                  isInsertingSuggestion, isCommandMode, isVisible, error,
                  suggestionCache, activeElement, surface, inDom >>

TimerFiresDestroyedResult(t, threw) ==
  timerCallbackDestroyed(
    [Begin EXCEPT !.timers = @ \ {t},
                  !.suggestionTimeout =
                     IF @ = t.id /\ t.id # 0 THEN Expired ELSE @],
    t, threw, unit.rootThrows)

\* A timer runs its callback after destroy.
TimerFiresDestroyed(t, threw) ==
  /\ unit.destroyed
  /\ t \in timers
  /\ t.left = 0
  /\ HasFreeTimerId(World)
  /\ t.kind = "debounce" => Cardinality(calls) < MaxCalls
  /\ (threw \/ unit.rootThrows)
       => Cardinality({ r \in timers \ {t} : r.kind = "retry" })
            < MaxRetryTimers
  /\ Becomes(TimerFiresDestroyedResult(t, threw))

\* The page after destroy: the focus moves without the tracker hearing of
\* it.
FocusMoves(el) ==
  /\ unit.destroyed
  /\ el \in inDom \cup { Body }
  /\ activeElement # el
  /\ activeElement' = el
  /\ UNCHANGED << focusedElement, currentAdapter, cursorData,
                  currentSuggestion, suggestionTimeout, isLoadingSuggestion,
                  isInsertingSuggestion, isCommandMode, isVisible, error,
                  currentAbortController, suggestionCache, calls, timers,
                  surface, inDom, unit >>

NextDestroy ==
  \/ ~unit.destroyed /\ \E el \in Elements : \E threw \in BOOLEAN :
                           FocusIn(el, threw)
  \/ ~unit.destroyed /\ FocusOut
  \/ ~unit.destroyed /\ KeyDown("Tab")
  \/ ~unit.destroyed /\ \E t \in timers : \E threw \in BOOLEAN :
                           TimerFires(t, threw)
  \/ Tick
  \/ \E c \in calls : \E outcome \in Outcomes(c) : Respond(c, outcome)
  \/ Destroy
  \/ \E t \in timers : \E threw \in BOOLEAN : TimerFiresDestroyed(t, threw)
  \/ \E el \in Elements \cup { Body } : FocusMoves(el)

SpecDestroy == InitDestroy /\ [][NextDestroy]_vars

\* ------------------------------------------------- SuggestionCache alone
\* The tracker is idle while a component is exercised on its own.
Idle == InitPage({}) /\ activeElement = Body

\* Requests as updateCursor builds them, for a caret within a short text.
Requests ==
  { [ textBefore |-> t[1], textAfter |-> t[2], textSelected |-> EmptyText,
      fullText |-> t[1] \o t[2],
      pageContentBefore |-> << "website", Domain, "P1" >> ] :
      t \in { << EmptyText, EmptyText >>, << << "a" >>, EmptyText >>,
              << EmptyText, << "a" >> >>, << << "\"" >>, EmptyText >> } }

Values == { Response(x, FALSE, FALSE) : x \in Suggestions }

Keys(cache) == [ i \in 1..Len(cache) |-> cache[i].key ]

\* new SuggestionCache({ maxSize }). The field last tells what the latest
\* operation did: "set" or "evicted" (a set or setPromise whose cleanup
\* removed nothing or something), "stored" or "missed" (a fulfilled promise
\* that found an entry under its key or none), "deleted" (a rejected
\* promise), and what a get returned: "result", "promise" or "undefined".
InitCache ==
  /\ Idle
  /\ \E m \in 1..MaxSize :
       unit = [ component |-> "cache", maxSize |-> m, cache |-> << >>,
                promises |-> {}, last |-> "none" ]

\* Whether cleanup removed an entry of before.
Cleaned(before, after) ==
  IF \A i \in 1..Len(before) :
       \E j \in 1..Len(after) : after[j].key = before[i].key
  THEN "set" ELSE "evicted"

CacheSet(k, v) ==
  /\ LET after == cacheSet(unit.cache, unit.maxSize, k, v)
     IN  unit' = [unit EXCEPT !.cache = after,
                              !.last = Cleaned(unit.cache, after)]
  /\ UNCHANGED tracker

CacheSetPromise(k) ==
  /\ Cardinality(unit.promises) < MaxPromises
  /\ LET p == CHOOSE i \in 1..MaxPromises :
                /\ i \notin { q.id : q \in unit.promises }
                /\ \A j \in 1..(i - 1) : j \in { q.id : q \in unit.promises }
          after == setPromise(unit.cache, unit.maxSize, k, p)
     IN  unit' = [unit EXCEPT
                    !.cache = after,
                    !.promises = @ \cup { [ id |-> p, key |-> k ] },
                    !.last = Cleaned(unit.cache, after)]
  /\ UNCHANGED tracker

PromiseFulfils(p, v) ==
  /\ p \in unit.promises
  /\ LET cacheKey == generateKey(p.key)
     IN  unit' = [unit EXCEPT
                    !.cache = promiseThen(unit.cache, cacheKey, v),
                    !.promises = @ \ {p},
                    !.last = IF cacheIndex(unit.cache, cacheKey) # 0
                             THEN "stored" ELSE "missed"]
  /\ UNCHANGED tracker

PromiseRejects(p) ==
  /\ p \in unit.promises
  /\ unit' = [unit EXCEPT
                !.cache = promiseCatch(unit.cache, generateKey(p.key)),
                !.promises = @ \ {p},
                !.last = "deleted"]
  /\ UNCHANGED tracker

\* get(k): the Map is left as it is.
CacheGet(k) ==
  /\ unit' = [unit EXCEPT
                !.last = IF cacheGet(unit.cache, k) # << >> THEN "result"
                         ELSE IF cacheGetPromise(unit.cache, k) # 0
                         THEN "promise" ELSE "undefined"]
  /\ UNCHANGED tracker

NextCache ==
  \/ \E k \in Requests : \E v \in Values : CacheSet(k, v)
  \/ \E k \in Requests : CacheSetPromise(k)
  \/ \E p \in unit.promises : \E v \in Values : PromiseFulfils(p, v)
  \/ \E p \in unit.promises : PromiseRejects(p)
  \/ \E k \in Requests : CacheGet(k)

SpecCache == InitCache /\ [][NextCache]_vars

\* -------------------------------------------- EditorAdapterRegistry alone
\* Priorities of the adapters of the extension: HtmlInputAdapter and
\* OverleafAdapter.
Priorities == { 0, 15 }

\* The elements looked up, and what an adapter's canHandle may accept.
Targets == { "x", "y" }

Handled == { {}, {"x"}, {"x", "y"} }

canHandle(adapter, element) == element \in adapter.handles

\* Array.findIndex over the outcomes of the test on each entry: the first
\* position whose entry satisfies it, 0 for -1.
findIndex(tests) ==
  IF \E i \in 1..Len(tests) : tests[i]
  THEN CHOOSE i \in 1..Len(tests) :
         /\ tests[i]
         /\ \A j \in 1..(i - 1) : ~tests[j]
  ELSE 0

\* Array.splice(index, 0, adapter)
splice(adapters, index, adapter) ==
  SubSeq(adapters, 1, index - 1) \o << adapter >>
    \o SubSeq(adapters, index, Len(adapters))

\* register with push in every case.
registerLast(adapters, adapter) == Append(adapters, adapter)

\* register inserting before the first adapter of lower or equal priority.
registerBeforeEqual(adapters, adapter) ==
  LET index == findIndex([ i \in 1..Len(adapters) |->
                             adapters[i].priority <= adapter.priority ])
  IN  IF index = 0 THEN Append(adapters, adapter)
      ELSE splice(adapters, index, adapter)

register(adapters, adapter) ==
  LET index == findIndex([ i \in 1..Len(adapters) |->
                             adapters[i].priority < adapter.priority ])
  IN  IF index = 0 THEN Append(adapters, adapter)
      ELSE splice(adapters, index, adapter)

\* EditorAdapterRegistry.findAdapter: << >> for null.
findAmong(adapters, element) ==
  LET index == findIndex([ i \in 1..Len(adapters) |->
                             canHandle(adapters[i], element) ])
  IN  IF index = 0 THEN << >> ELSE << adapters[index] >>

\* new EditorAdapterRegistry(); found is the latest lookup and its result.
InitRegistry ==
  /\ Idle
  /\ unit = [ component |-> "registry", adapters |-> << >>, found |-> << >> ]

\* register(AdapterClass): the instance is numbered by its registration.
Register(priority, handles) ==
  /\ Len(unit.adapters) < MaxAdapters
  /\ unit' = [unit EXCEPT
                !.adapters = register(@, [ id |-> Len(@) + 1,
                                           priority |-> priority,
                                           handles |-> handles ])]
  /\ UNCHANGED tracker

FindAdapter(element) ==
  /\ unit' = [unit EXCEPT
                !.found = << [ element |-> element,
                              adapter |-> findAmong(unit.adapters, element) ] >>]
  /\ UNCHANGED tracker

NextRegistry ==
  \/ \E priority \in Priorities : \E handles \in Handled :
       Register(priority, handles)
  \/ \E element \in Targets : FindAdapter(element)

SpecRegistry == InitRegistry /\ [][NextRegistry]_vars

\* ------------------------------------------------ HtmlInputAdapter alone
Letters == { "a", "b" }

InputValues == UNION { [ 1..n -> Letters ] : n \in 0..MaxValue }

\* The native selection states of an input holding value: a range within
\* the value, or none for a type without selection (email).
InputStates ==
  { [ value |-> v, selectionStart |-> r[1], selectionEnd |-> r[2] ] :
      v \in InputValues,
      r \in { << NoSelection, NoSelection >> }
             \cup ((0..MaxValue) \X (0..MaxValue)) }

\* A page with the input as its surface e1.
PageOf(input) == [ surface |-> [ el \in { "e1" } |-> input ] ]

\* The three ways insertText puts the text in, in the order it tries them.
Paths == { "execCommand", "setRangeText", "setter" }

\* document.execCommand('insertText', false, text) returning true: the
\* selection of the focused input is replaced, the caret follows the text.
execCommand(input, text) ==
  [ value |-> Slice(input.value, 0, input.selectionStart) \o text
                \o Slice(input.value, input.selectionEnd, Len(input.value)),
    selectionStart |-> input.selectionStart + Len(text),
    selectionEnd |-> input.selectionStart + Len(text) ]

\* input.setRangeText(text, s, e, 'end')
setRangeText(input, text, s, e) ==
  [ value |-> Slice(input.value, 0, s) \o text
                \o Slice(input.value, e, Len(input.value)),
    selectionStart |-> s + Len(text),
    selectionEnd |-> s + Len(text) ]

\* The native value setter followed by setSelectionRange(pos, pos).
setter(input, text, s, e) ==
  LET next == Slice(input.value, 0, s) \o text
                \o Slice(input.value, e, Len(input.value))
      pos == s + Len(text)
  IN  PageOf(setSelectionRange(PageOf([input EXCEPT !.value = next]),
                               "e1", pos, pos).surface["e1"]).surface["e1"]

\* HtmlInputAdapter.insertText on the input, by the path the page allows.
insertTextInto(input, text, path) ==
  LET s == input.selectionStart
      e == input.selectionEnd
  IN  CASE path = "execCommand" -> execCommand(input, text)
        [] path = "setRangeText" /\ s # NoSelection /\ e # NoSelection
             -> setRangeText(input, text, s, e)
        [] path = "setter" /\ s # NoSelection /\ e # NoSelection
             -> setter(input, text, s, e)
        [] OTHER -> input

\* HtmlInputAdapter.setCursorAndInsert on the input. setSelectionRange
\* throws InvalidStateError on an input whose type has no selection, and
\* the text is not inserted.
setCursorAndInsertInto(input, selectionStart, selectionEnd, text, path) ==
  IF input.selectionStart = NoSelection
  THEN [ input |-> input, threw |-> TRUE ]
  ELSE [ input |-> insertTextInto(
                     setSelectionRange(PageOf(input), "e1", selectionStart,
                                       selectionEnd).surface["e1"],
                     text, path),
         threw |-> FALSE ]

\* An input in any native state; context is the latest result of
\* getEditorContext, inserted the latest insertion made at its offsets.
InitInput ==
  /\ Idle
  /\ \E input \in InputStates :
       /\ input.selectionStart # NoSelection
            => /\ input.selectionStart <= input.selectionEnd
               /\ input.selectionEnd <= Len(input.value)
       /\ unit = [ component |-> "input", input |-> input,
                   context |-> << >>, inserted |-> << >> ]

GetEditorContext ==
  /\ unit' = [unit EXCEPT
                !.context = << getEditorContext(PageOf(unit.input), "e1") >>,
                !.inserted = << >>]
  /\ UNCHANGED tracker

SetCursorAndInsert(text, path) ==
  /\ unit.context # << >>
  /\ unit.inserted = << >>
  /\ Len(unit.input.value) <= MaxValue
  /\ LET done == setCursorAndInsertInto(unit.input,
                                        unit.context[1].selectionStart,
                                        unit.context[1].selectionEnd,
                                        text, path)
     IN  unit' = [unit EXCEPT
                    !.input = done.input,
                    !.inserted = << [ text |-> text, path |-> path,
                                     threw |-> done.threw ] >>]
  /\ UNCHANGED tracker

NextInput ==
  \/ GetEditorContext
  \/ \E text \in { << "c" >>, << "c", "d" >> } : \E path \in Paths :
       SetCursorAndInsert(text, path)

SpecInput == InitInput /\ [][NextInput]_vars

\* -------------------------------------------------- OverleafAdapter alone
\* A .cm-line element is the sequence of its text nodes, in the order the
\* TreeWalker visits them: an empty line, a line of one text node and a
\* line of two.
LineShapes == { << >>, << << "a", "b" >> >>, << << "a" >>, << "b" >> >> }

\* The editor's .cm-line elements; none while the editor has not rendered.
Documents == UNION { [ 1..n -> LineShapes ] : n \in 0..MaxLines }

\* A boundary point of a native range: a text node (node > 0) of a line
\* with an offset into its text, or the line element itself (node = 0)
\* with an offset counting its child nodes.
BoundaryPoints(lines) ==
  { [ line |-> i, node |-> j, offset |-> k ] :
      i \in 1..MaxLines, j \in 0..2, k \in 0..2 }
    \cap { p \in [ line : 1..Len(lines), node : 0..2, offset : 0..2 ] :
             /\ p.node <= Len(lines[p.line])
             /\ p.offset <= IF p.node = 0 THEN Len(lines[p.line])
                             ELSE Len(lines[p.line][p.node]) }

\* Document order of boundary points: Range keeps its start before its end.
NotAfter(p, q) ==
  \/ p.line < q.line
  \/ /\ p.line = q.line
     /\ \/ p.node = 0 /\ q.node = 0 /\ p.offset <= q.offset
        \/ p.node = 0 /\ q.node > 0 /\ p.offset < q.node
        \/ p.node > 0 /\ q.node = 0 /\ p.node <= q.offset
        \/ p.node > 0 /\ q.node > 0 /\ p.node < q.node
        \/ p.node > 0 /\ p.node = q.node /\ p.offset <= q.offset

\* line.textContent
RECURSIVE textContent(_)
textContent(nodes) ==
  IF nodes = << >> THEN << >> ELSE Head(nodes) \o textContent(Tail(nodes))

\* lines.map(line => line.textContent || '').join('\n')
RECURSIVE getFullTextWithNewlines(_)
getFullTextWithNewlines(lines) ==
  IF Len(lines) = 0 THEN EmptyText
  ELSE IF Len(lines) = 1 THEN textContent(lines[1])
  ELSE textContent(lines[1]) \o << "\n" >>
         \o getFullTextWithNewlines(Tail(lines))

\* A newline counted after every line, the last one included.
newlineAfterEvery(i, n) == 1

\* if (i < lines.length - 1) offset += 1, for the i-th of n lines
newlineAfter(i, n) == IF i < n THEN 1 ELSE 0

\* The while loop of getSelectionOffsets over the text nodes of line i from
\* node j on; acc holds offset, start, end and whether the loop returned.
RECURSIVE offsetsInNodes(_, _, _, _, _)
offsetsInNodes(lines, range, i, j, acc) ==
  IF j > Len(lines[i]) THEN acc
  ELSE LET length == Len(lines[i][j])
           start == IF range.start.line = i /\ range.start.node = j
                    THEN acc.offset + range.start.offset ELSE acc.start
           end == IF range.end.line = i /\ range.end.node = j
                  THEN acc.offset + range.end.offset ELSE acc.end
       IN  IF start >= 0 /\ end >= 0
           THEN [ offset |-> acc.offset, start |-> start, end |-> end,
                  returned |-> TRUE ]
           ELSE offsetsInNodes(lines, range, i, j + 1,
                               [ offset |-> acc.offset + length,
                                 start |-> start, end |-> end,
                                 returned |-> FALSE ])

\* The for loop of getSelectionOffsets from line i on, and its last return.
RECURSIVE offsetsInLines(_, _, _, _)
offsetsInLines(lines, range, i, acc) ==
  IF i > Len(lines)
  THEN [ start |-> IF acc.start > 0 THEN acc.start ELSE 0,
         end |-> LET e == IF acc.end >= 0 THEN acc.end ELSE acc.start
                 IN  IF e > 0 THEN e ELSE 0,
         offset |-> acc.offset, finished |-> TRUE ]
  ELSE LET lineStartOffset == acc.offset
           walked == offsetsInNodes(lines, range, i, 1, acc)
           start == IF walked.start = -1 /\ range.start.line = i
                       /\ range.start.node = 0
                    THEN lineStartOffset ELSE walked.start
           end == IF walked.end = -1 /\ range.end.line = i
                     /\ range.end.node = 0
                  THEN lineStartOffset ELSE walked.end
       IN  IF walked.returned
           THEN [ start |-> walked.start, end |-> walked.end,
                  offset |-> walked.offset, finished |-> FALSE ]
           ELSE IF start >= 0 /\ end >= 0
           THEN [ start |-> start, end |-> end,
                  offset |-> walked.offset, finished |-> FALSE ]
           ELSE offsetsInLines(lines, range, i + 1,
                               [ offset |-> walked.offset
                                              + newlineAfter(i, Len(lines)),
                                 start |-> start, end |-> end,
                                 returned |-> FALSE ])

\* The for loop from its first line: besides start and end, the value of
\* the offset counter when the loop was left and whether it ran to its end.
walkOffsets(lines, range) ==
  offsetsInLines(lines, range, 1,
                 [ offset |-> 0, start |-> -1, end |-> -1,
                   returned |-> FALSE ])

getSelectionOffsets(lines, range) ==
  LET walked == walkOffsets(lines, range)
  IN  [ start |-> walked.start, end |-> walked.end ]

\* OverleafAdapter.getEditorContext; selection is << >> when the window
\* has no range and << range >> otherwise.
overleafContext(lines, selection) ==
  LET fullText == getFullTextWithNewlines(lines)
  IN  IF selection = << >>
      THEN [ textBefore |-> EmptyText, textAfter |-> fullText,
             textSelected |-> EmptyText, fullText |-> fullText,
             selectionStart |-> 0, selectionEnd |-> 0 ]
      ELSE LET offsets == getSelectionOffsets(lines, selection[1])
           IN  [ textBefore |-> Slice(fullText, 0, offsets.start),
                 textAfter |-> Slice(fullText, offsets.end, Len(fullText)),
                 textSelected |-> Slice(fullText, offsets.start, offsets.end),
                 fullText |-> fullText,
                 selectionStart |-> offsets.start,
                 selectionEnd |-> offsets.end ]

\* A position that the text node spanning offset..nodeEnd takes, with
\* the position after its last character left out.
inNodeBeforeEnd(position, offset, nodeEnd) ==
  position >= offset /\ position < nodeEnd

\* start >= offset && start <= nodeEnd
inNode(position, offset, nodeEnd) ==
  position >= offset /\ position <= nodeEnd

Point(i, j, k) == [ line |-> i, node |-> j, offset |-> k ]

\* The while loop of setSelection over the text nodes of line i from node j
\* on; startNode, endNode and lastTextNode are << >> for null.
RECURSIVE selectInNodes(_, _, _, _, _, _)
selectInNodes(lines, start, end, i, j, acc) ==
  IF j > Len(lines[i]) THEN acc
  ELSE LET length == Len(lines[i][j])
           nodeEnd == acc.offset + length
           startNode == IF acc.startNode = << >>
                           /\ inNode(start, acc.offset, nodeEnd)
                        THEN << Point(i, j, start - acc.offset) >>
                        ELSE acc.startNode
           endNode == IF acc.endNode = << >>
                         /\ inNode(end, acc.offset, nodeEnd)
                      THEN << Point(i, j, end - acc.offset) >>
                      ELSE acc.endNode
       IN  IF startNode # << >> /\ endNode # << >>
           THEN [acc EXCEPT !.startNode = startNode, !.endNode = endNode,
                            !.returned = TRUE]
           ELSE selectInNodes(lines, start, end, i, j + 1,
                   [ offset |-> acc.offset + length,
                     startNode |-> startNode, endNode |-> endNode,
                     lastTextNode |-> << Point(i, j, length) >>,
                     returned |-> FALSE ])

\* The for loop of setSelection from line i on: the result is whether a
\* range was added to the selection, and that range.
RECURSIVE selectInLines(_, _, _, _, _)
selectInLines(lines, start, end, i, acc) ==
  IF i > Len(lines)
  THEN [ ok |-> FALSE, range |-> << >>, totalLength |-> acc.offset ]
  ELSE LET lineStartOffset == acc.offset
           hasTextNodes == Len(lines[i]) > 0
           walked == selectInNodes(lines, start, end, i, 1, acc)
           \* empty line: the line element is the container
           emptied ==
             IF hasTextNodes THEN walked
             ELSE [walked EXCEPT
                     !.startNode = IF @ = << >> /\ start = lineStartOffset
                                   THEN << Point(i, 0, 0) >> ELSE @,
                     !.endNode = IF @ = << >> /\ end = lineStartOffset
                                 THEN << Point(i, 0, 0) >> ELSE @]
           newlinePos == walked.offset
           \* a position on the newline: the end of the last text node
           newlined ==
             [emptied EXCEPT
                !.startNode = IF @ = << >> /\ start = newlinePos
                                 /\ walked.lastTextNode # << >>
                              THEN walked.lastTextNode ELSE @,
                !.endNode = IF @ = << >> /\ end = newlinePos
                               /\ walked.lastTextNode # << >>
                            THEN walked.lastTextNode ELSE @]
           Added(a) == [ ok |-> TRUE,
                         range |-> << [ start |-> a.startNode[1],
                                        end |-> a.endNode[1] ] >>,
                         totalLength |-> a.offset ]
       IN  IF walked.returned THEN Added(walked)
           ELSE IF emptied.startNode # << >> /\ emptied.endNode # << >>
           THEN Added(emptied)
           ELSE IF i = Len(lines)
           THEN selectInLines(lines, start, end, i + 1,
                              [emptied EXCEPT
                                 !.offset = @ + newlineAfter(i, Len(lines))])
           ELSE IF newlined.startNode # << >> /\ newlined.endNode # << >>
           THEN Added(newlined)
           ELSE selectInLines(lines, start, end, i + 1,
                              [newlined EXCEPT
                                 !.offset = @ + newlineAfter(i, Len(lines))])

\* OverleafAdapter.setSelection; failed says that the selection API was
\* not available or raised an exception, which the catch block turns into
\* false.
setSelection(lines, start, end, failed) ==
  IF failed \/ Len(lines) = 0
  THEN [ ok |-> FALSE, range |-> << >>, totalLength |-> 0 ]
  ELSE selectInLines(lines, start, end, 1,
                     [ offset |-> 0, startNode |-> << >>, endNode |-> << >>,
                       lastTextNode |-> << >>, returned |-> FALSE ])

\* OverleafAdapter.insertText: nothing without a selection range, otherwise
\* the text replaces the selection. What the editor then renders is its
\* own doing; the insertion is kept as the range it went to.
overleafInsertText(selection, text) ==
  IF selection = << >> THEN << >>
  ELSE << [ at |-> selection[1], text |-> text ] >>

\* setCursorAndInsert inserting only when the selection was restored.
overleafInsertIfRestored(lines, selection, start, end, text, failed) ==
  LET done == setSelection(lines, start, end, failed)
  IN  [ ok |-> done.ok,
        selection |-> IF done.ok THEN done.range ELSE selection,
        inserted |-> IF done.ok THEN overleafInsertText(done.range, text)
                     ELSE << >> ]

\* OverleafAdapter.setCursorAndInsert: the result of setSelection is not
\* looked at.
overleafSetCursorAndInsert(lines, selection, start, end, text, failed) ==
  LET done == setSelection(lines, start, end, failed)
      current == IF done.ok THEN done.range ELSE selection
  IN  [ ok |-> done.ok, selection |-> current,
        inserted |-> overleafInsertText(current, text) ]

\* The native ranges over the text nodes and line elements of the editor.
Ranges(lines) ==
  { range \in [ start : BoundaryPoints(lines), end : BoundaryPoints(lines) ] :
      NotAfter(range.start, range.end) }

\* A collapsed range of the window that lies outside the editor.
Outside == [ start |-> Point(0, 0, 0), end |-> Point(0, 0, 0) ]

\* An editor, and a native selection range inside it or outside it, or
\* none.
InitOverleaf ==
  /\ Idle
  /\ \E lines \in Documents :
       \E selection \in
            { << >>, << Outside >> }
              \cup { << range >> : range \in Ranges(lines) } :
         unit = [ component |-> "overleaf", lines |-> lines,
                  selection |-> selection, context |-> << >>,
                  walked |-> << >>, set |-> << >>, inserted |-> << >> ]

\* getEditorContext; walked is what the loop of getSelectionOffsets left.
GetOverleafContext ==
  /\ unit.context = << >>
  /\ unit' = [unit EXCEPT
                !.context = << overleafContext(unit.lines, unit.selection) >>,
                !.walked = IF unit.selection = << >> THEN << >>
                           ELSE << walkOffsets(unit.lines,
                                               unit.selection[1]) >>]
  /\ UNCHANGED tracker

\* Offsets into the editor's text, and one beyond it.
Offsets == 0..(Len(getFullTextWithNewlines(unit.lines)) + 1)

\* setSelection(start, end): a range that was added replaces the selection.
SetSelection(start, end) ==
  /\ start <= end
  /\ unit.set = << >>
  /\ LET done == setSelection(unit.lines, start, end, FALSE)
     IN  unit' = [unit EXCEPT
                    !.selection = IF done.ok THEN done.range ELSE @,
                    !.context = << >>,
                    !.walked = << >>,
                    !.set = << [ start |-> start, end |-> end,
                                ok |-> done.ok,
                                totalLength |-> done.totalLength ] >>]
  /\ UNCHANGED tracker

\* setCursorAndInsert(element, start, end, text) on an editor; restored
\* tells whether setSelection returned true, failed whether the selection
\* API was the reason.
OverleafSetCursorAndInsert(start, end, text, failed) ==
  /\ unit.component = "overleaf"
  /\ start <= end
  /\ unit.inserted = << >>
  /\ LET done == overleafSetCursorAndInsert(unit.lines, unit.selection,
                                            start, end, text, failed)
     IN  unit' = [unit EXCEPT
                    !.selection = done.selection,
                    !.inserted = << [ restored |-> done.ok,
                                     failed |-> failed,
                                     done |-> done.inserted ] >>]
  /\ UNCHANGED tracker

NextOverleaf ==
  \/ GetOverleafContext
  \/ \E start \in Offsets : \E end \in Offsets :
       SetSelection(start, end)

SpecOverleaf == InitOverleaf /\ [][NextOverleaf]_vars

\* ------------------------------------------------------ GmailAdapter alone
\* The child nodes of the contenteditable root: text nodes and <br>
\* elements.
TextNode(data) == [ br |-> FALSE, data |-> data ]
Br == [ br |-> TRUE, data |-> << >> ]
ChildNodes == { TextNode(<< "a" >>), TextNode(<< "a", "b" >>), Br }

Bodies == UNION { [ 1..n -> ChildNodes ] : n \in 0..MaxNodes }

\* A boundary point inside the editable root: child node `node` with an
\* offset into its text, or the root itself (node = 0) with an offset
\* counting its child nodes.
GmailPoints(nodes) ==
  { p \in [ node : 0..Len(nodes), offset : 0..MaxNodes + 1 ] :
      IF p.node = 0 THEN p.offset <= Len(nodes)
      ELSE ~nodes[p.node].br /\ p.offset <= Len(nodes[p.node].data) }

\* Document order of boundary points.
gmailNotAfter(p, q) ==
  \/ p.node = 0 /\ q.node = 0 /\ p.offset <= q.offset
  \/ p.node = 0 /\ q.node > 0 /\ p.offset < q.node
  \/ p.node > 0 /\ q.node = 0 /\ p.node <= q.offset
  \/ p.node > 0 /\ q.node > 0 /\ p.node < q.node
  \/ p.node > 0 /\ p.node = q.node /\ p.offset <= q.offset

GmailRanges(nodes) ==
  { range \in [ start : GmailPoints(nodes), end : GmailPoints(nodes) ] :
      gmailNotAfter(range.start, range.end) }

\* editableRoot.textContent of the first n child nodes
RECURSIVE rootTextContent(_, _)
rootTextContent(nodes, n) ==
  IF n = 0 THEN << >>
  ELSE rootTextContent(nodes, n - 1) \o nodes[n].data

\* The text that precedes a boundary point.
textBeforePoint(nodes, p) ==
  IF p.node = 0 THEN rootTextContent(nodes, p.offset)
  ELSE rootTextContent(nodes, p.node - 1)
         \o SubSeq(nodes[p.node].data, 1, p.offset)

\* Range.prototype.toString(): the text between the boundary points.
rangeToString(nodes, start, end) ==
  Slice(rootTextContent(nodes, Len(nodes)),
        Len(textBeforePoint(nodes, start)),
        Len(textBeforePoint(nodes, end)))

\* _getLastTextNode(editableRoot): the index of the last text node, 0 for
\* null.
RECURSIVE getLastTextNode(_, _)
getLastTextNode(nodes, i) ==
  IF i = 0 THEN 0
  ELSE IF ~nodes[i].br THEN i
  ELSE getLastTextNode(nodes, i - 1)

\* Range.prototype.setEnd on a range that starts at `start`: a start after
\* the new end is moved to it.
setEnd(start, end) ==
  [ start |-> IF gmailNotAfter(start, end) THEN start ELSE end,
    end |-> end ]

\* The no-selection return of GmailAdapter.getEditorContext.
gmailDefaultContext(nodes) ==
  [ textBefore |-> EmptyText, textAfter |-> EmptyText,
    textSelected |-> EmptyText,
    fullText |-> rootTextContent(nodes, Len(nodes)),
    selectionStart |-> 0, selectionEnd |-> 0 ]

\* GmailAdapter.getEditorContext; selection is << >> when the window has
\* no range and << range >> otherwise.
gmailContext(nodes, selection) ==
  IF selection = << >> THEN gmailDefaultContext(nodes)
  ELSE LET range == selection[1]
           textContent_ == rootTextContent(nodes, Len(nodes))
           textBefore == rangeToString(nodes, [ node |-> 0, offset |-> 0 ],
                                       range.start)
           lastNode == getLastTextNode(nodes, Len(nodes))
           afterRange ==
             IF lastNode # 0
             THEN setEnd(range.end,
                         [ node |-> lastNode,
                           offset |-> Len(nodes[lastNode].data) ])
             ELSE [ start |-> range.end,
                    end |-> [ node |-> 0, offset |-> Len(nodes) ] ]
           textAfter == rangeToString(nodes, afterRange.start, afterRange.end)
           textSelected == rangeToString(nodes, range.start, range.end)
       IN  [ textBefore |-> textBefore, textAfter |-> textAfter,
             textSelected |-> textSelected, fullText |-> textContent_,
             selectionStart |-> Len(textBefore),
             selectionEnd |-> Len(textBefore) + Len(textSelected) ]

\* _findNodeAndOffset from the i-th child node on, currentOffset characters
\* into the text: the first text node that reaches the target, else the
\* end of the last text node, else the root.
RECURSIVE findNodeAndOffset(_, _, _, _)
findNodeAndOffset(nodes, targetOffset, i, currentOffset) ==
  IF i > Len(nodes)
  THEN IF currentOffset > 0
       THEN LET lastNode == getLastTextNode(nodes, Len(nodes))
            IN  [ node |-> lastNode, offset |-> Len(nodes[lastNode].data) ]
       ELSE [ node |-> 0, offset |-> 0 ]
  ELSE IF nodes[i].br
  THEN findNodeAndOffset(nodes, targetOffset, i + 1, currentOffset)
  ELSE IF currentOffset + Len(nodes[i].data) >= targetOffset
  THEN [ node |-> i, offset |-> targetOffset - currentOffset ]
  ELSE findNodeAndOffset(nodes, targetOffset, i + 1,
                         currentOffset + Len(nodes[i].data))

\* GmailAdapter._setSelection; failed says that the selection API raised
\* an exception, which the catch block turns into false.
gmailSetSelection(nodes, start, end, failed) ==
  IF failed
  THEN [ ok |-> FALSE, range |-> << >> ]
  ELSE [ ok |-> TRUE,
         range |-> setEnd(findNodeAndOffset(nodes, start, 1, 0),
                          findNodeAndOffset(nodes, end, 1, 0)) ]

\* The text nodes that insertText creates for text: a line break becomes a
\* <br> element, which has no text.
RECURSIVE insertedTextContent(_)
insertedTextContent(text) ==
  IF text = << >> THEN << >>
  ELSE (IF Head(text) = "\n" THEN << >> ELSE << Head(text) >>)
         \o insertedTextContent(Tail(text))

\* GmailAdapter.insertText: nothing without a selection range, otherwise
\* the contents of the range are deleted and the text is put in their
\* place. textContent is the text of the root afterwards.
gmailInsertText(nodes, selection, text) ==
  IF selection = << >>
  THEN [ inserted |-> << >>,
         textContent |-> rootTextContent(nodes, Len(nodes)) ]
  ELSE LET range == selection[1]
           all == rootTextContent(nodes, Len(nodes))
       IN  [ inserted |-> << [ at |-> range, text |-> text ] >>,
             textContent |->
               textBeforePoint(nodes, range.start)
                 \o insertedTextContent(text)
                 \o Slice(all, Len(textBeforePoint(nodes, range.end)),
                          Len(all)) ]

\* setCursorAndInsert inserting only when the selection was set.
gmailInsertIfSet(nodes, selection, start, end, text, failed) ==
  LET done == gmailSetSelection(nodes, start, end, failed)
      put == gmailInsertText(nodes, IF done.ok THEN << done.range >>
                                    ELSE << >>, text)
  IN  [ ok |-> done.ok,
        selection |-> IF done.ok THEN << done.range >> ELSE selection,
        inserted |-> put.inserted, textContent |-> put.textContent ]

\* GmailAdapter.setCursorAndInsert: both branches insert.
gmailSetCursorAndInsert(nodes, selection, start, end, text, failed) ==
  LET done == gmailSetSelection(nodes, start, end, failed)
      current == IF done.ok THEN << done.range >> ELSE selection
      put == gmailInsertText(nodes, current, text)
  IN  [ ok |-> done.ok, selection |-> current,
        inserted |-> put.inserted, textContent |-> put.textContent ]

\* A compose body with a native selection range inside it, or with none.
InitGmail ==
  /\ Idle
  /\ \E nodes \in Bodies :
       \E selection \in
            { << >> } \cup { << range >> : range \in GmailRanges(nodes) } :
         unit = [ component |-> "gmail", nodes |-> nodes,
                  selection |-> selection, context |-> << >>,
                  inserted |-> << >> ]

GetGmailContext ==
  /\ unit.context = << >>
  /\ unit' = [unit EXCEPT
                !.context = << gmailContext(unit.nodes, unit.selection) >>]
  /\ UNCHANGED tracker

NextGmail == GetGmailContext

SpecGmail == InitGmail /\ [][NextGmail]_vars

\* ------------------------------------------- setCursorAndInsert of the two
\* setCursorAndInsert(element, start, end, text) on a compose body.
GmailSetCursorAndInsert(start, end, text, failed) ==
  /\ unit.component = "gmail"
  /\ start <= end
  /\ unit.inserted = << >>
  /\ LET done == gmailSetCursorAndInsert(unit.nodes, unit.selection,
                                         start, end, text, failed)
     IN  unit' = [unit EXCEPT
                    !.selection = done.selection,
                    !.inserted = << [ restored |-> done.ok,
                                     failed |-> failed,
                                     done |-> done.inserted,
                                     textContent |-> done.textContent ] >>]
  /\ UNCHANGED tracker

\* The texts handed to setCursorAndInsert.
Insertions == { << "c" >>, << "c", "\n", "d" >> }

InitRestore == InitOverleaf \/ InitGmail

NextRestore ==
  \/ \E start \in 0..(3 * MaxLines) : \E end \in 0..(3 * MaxLines) :
       \E failed \in BOOLEAN : \E text \in Insertions :
         OverleafSetCursorAndInsert(start, end, text, failed)
  \/ \E start \in 0..(2 * MaxNodes + 1) : \E end \in 0..(2 * MaxNodes + 1) :
       \E failed \in BOOLEAN : \E text \in Insertions :
         GmailSetCursorAndInsert(start, end, text, failed)

SpecRestore == InitRestore /\ [][NextRestore]_vars

\* ------------------------------------------------------- CommandView alone
\* What the rewrite service can answer: an exception, no tool call, a call
\* of another function, or arguments with or without a suggestion.
RewriteOutcomes ==
  { [ kind |-> k, suggestion |-> EmptyText ] :
      k \in { "threw", "noToolCall", "wrongFunction" } }
    \cup { [ kind |-> "args", suggestion |-> t ] :
             t \in { EmptyText, << "c" >>, << "d" >> } }

\* getGuidedSuggestion of llm.ts: the response for an outcome of the call.
getGuidedSuggestion(outcome) ==
  IF outcome.kind = "threw"
  THEN [ suggestion |-> EmptyText, error |-> TRUE ]
  ELSE IF outcome.kind \in { "noToolCall", "wrongFunction" }
  THEN [ suggestion |-> EmptyText, error |-> FALSE ]
  ELSE [ suggestion |-> outcome.suggestion, error |-> FALSE ]

\* hasContent of CommandView
hasContent(view) ==
  view.currentSuggestion # EmptyText
    /\ Len(Trim(view.currentSuggestion)) > 0

\* An Accept button that is disabled only without content.
acceptDisabledWithoutContent(view) == ~hasContent(view)

\* disabled of the Accept button
acceptDisabled(view) == ~hasContent(view) \/ view.isIterating

\* disabled of the iterate button
iterateDisabled(view) ==
  Trim(view.iterationPrompt) = EmptyText \/ view.isIterating

\* disabled of the textarea
inputDisabled(view) == view.isIterating

\* handleIterate up to its await
handleIterate(view) ==
  IF Trim(view.iterationPrompt) = EmptyText
  THEN view
  ELSE [view EXCEPT
          !.isIterating = TRUE,
          !.requests = @ \cup { [ currentSuggestion |-> view.currentSuggestion,
                                  guidedPrompt |-> view.iterationPrompt ] }]

\* A handleIterate that takes every response's suggestion.
settleRewriteAnyway(view, request, result) ==
  [view EXCEPT
     !.requests = @ \ { request },
     !.currentSuggestion = result.suggestion,
     !.iterationPrompt = EmptyText,
     !.isIterating = FALSE,
     !.rewrites = @ + 1,
     !.result = << result >>]

\* handleIterate after its await; the state of a view that was unmounted
\* is gone.
settleRewrite(view, request, result) ==
  IF ~view.mounted
  THEN [view EXCEPT !.requests = @ \ { request }]
  ELSE [view EXCEPT
          !.requests = @ \ { request },
          !.currentSuggestion =
             IF result.suggestion # EmptyText /\ ~result.error
             THEN result.suggestion ELSE @,
          !.iterationPrompt = EmptyText,
          !.isIterating = FALSE,
          !.rewrites = @ + 1,
          !.result = << result >>]

\* The surface the tracker follows when the chord is pressed: a text with
\* the caret in it or a part of it selected.
Activations ==
  { [ value |-> << "a", "b" >>, selectionStart |-> r[1],
      selectionEnd |-> r[2] ] :
      r \in { << 0, 0 >>, << 2, 2 >>, << 0, 1 >>, << 1, 2 >> } }

\* The chord pressed in suggestion mode by a tracker that follows e1 and
\* holds the auto-suggestion.
activate(input, suggestion) ==
  onKeyDown([Begin EXCEPT !.focusedElement = "e1",
                          !.currentAdapter = findAdapter("e1"),
                          !.activeElement = "e1",
                          !.inDom = { "e1" },
                          !.surface["e1"] = input,
                          !.currentSuggestion = suggestion],
            "k", "e1")

\* textSelected of the cursorData handed to the overlay, empty when
\* cursorData is undefined.
textSelectedOf(w) ==
  IF w.cursorData = << >> THEN EmptyText ELSE w.cursorData[1].textSelected

\* A view that starts from the auto-suggestion whenever there is one.
initialSuggestionFromAuto(textSelected, suggestion) ==
  IF suggestion # EmptyText THEN suggestion ELSE textSelected

\* useState(() => textSelected || suggestion || '')
initialSuggestion(textSelected, suggestion) ==
  IF textSelected # EmptyText THEN textSelected ELSE suggestion

\* A CommandView as mounted by the render of onKeyDown that enters command
\* mode; activation is the surface and the auto-suggestion at that moment.
InitCommand ==
  /\ Idle
  /\ \E input \in Activations :
       \E suggestion \in { EmptyText, << "b" >>, << " " >> } :
         unit = [ component |-> "command",
                  activation |-> [ input |-> input,
                                   suggestion |-> suggestion ],
                  suggestion |-> activate(input, suggestion).currentSuggestion,
                  textSelected |->
                    textSelectedOf(activate(input, suggestion)),
                  currentSuggestion |->
                    initialSuggestion(
                      textSelectedOf(activate(input, suggestion)),
                      activate(input, suggestion).currentSuggestion),
                  iterationPrompt |-> EmptyText,
                  isIterating |-> FALSE,
                  requests |-> {},
                  rewrites |-> 0,
                  result |-> << >>,
                  accepted |-> << >>,
                  mounted |-> TRUE ]

\* onChange of the textarea
SetIterationPrompt(prompt) ==
  /\ unit.mounted
  /\ ~inputDisabled(unit)
  /\ unit' = [unit EXCEPT !.iterationPrompt = prompt]
  /\ UNCHANGED tracker

\* Enter in the textarea
HandleKeyDown ==
  /\ unit.mounted
  /\ ~inputDisabled(unit)
  /\ unit.rewrites + Cardinality(unit.requests) < MaxRewrites
  /\ unit' = handleIterate(unit)
  /\ UNCHANGED tracker

\* A click on the iterate button
ClickIterate ==
  /\ unit.mounted
  /\ ~iterateDisabled(unit)
  /\ unit.rewrites + Cardinality(unit.requests) < MaxRewrites
  /\ unit' = handleIterate(unit)
  /\ UNCHANGED tracker

\* The rewrite service answers a request.
SettleRewrite(request, outcome) ==
  /\ request \in unit.requests
  /\ unit' = settleRewrite(unit, request, getGuidedSuggestion(outcome))
  /\ UNCHANGED tracker

\* A click on Accept: onAccept(currentSuggestion) closes the view.
ClickAccept ==
  /\ unit.mounted
  /\ ~acceptDisabled(unit)
  /\ unit' = [unit EXCEPT !.accepted = << unit.currentSuggestion >>,
                          !.mounted = FALSE]
  /\ UNCHANGED tracker

\* A click on Reject: onReject() closes the view.
ClickReject ==
  /\ unit.mounted
  /\ unit' = [unit EXCEPT !.mounted = FALSE]
  /\ UNCHANGED tracker

NextCommand ==
  \/ \E prompt \in { EmptyText, << " " >>, << "p" >>, << "q" >> } :
       SetIterationPrompt(prompt)
  \/ HandleKeyDown
  \/ ClickIterate
  \/ \E request \in unit.requests : \E outcome \in RewriteOutcomes :
       SettleRewrite(request, outcome)
  \/ ClickAccept
  \/ ClickReject

SpecCommand == InitCommand /\ [][NextCommand]_vars

\* ------------------------------------------------------------- properties
\* The engine is in SuggestionVisible: the overlay shows a suggestion.
SuggestionVisible ==
  /\ isVisible
  /\ currentSuggestion # EmptyText
  /\ ~isLoadingSuggestion
  /\ ~isCommandMode

DebounceTimers == { t \in timers : t.kind = "debounce" }

\* The step in which service call c settles with outcome: the call leaves the
\* calls in flight and the code after the await runs.
Settles(c, outcome) ==
  /\ Cardinality(calls') < Cardinality(calls)
  /\ Respond(c, outcome)

\* C1: once a newer request has taken over (the call is no longer the one
\* under the current abort handle), the settlement of the earlier call,
\* whatever its outcome, changes none of currentSuggestion, isVisible,
\* isLoadingSuggestion and error, and renders nothing.
C1_CancellationPrecedence ==
  [][\A c \in calls : \A outcome \in Outcomes(c) :
       (c.id # currentAbortController /\ Settles(c, outcome))
         => /\ UNCHANGED << currentSuggestion, isVisible,
                            isLoadingSuggestion, error >>
            /\ ~RespondResult(c, outcome).fx.render]_vars

\* Request B is in flight under the current abort handle while the earlier
\* request A has not settled yet.
C1_Witness ==
  \E a \in calls : \E b \in calls :
    /\ a.id # currentAbortController
    /\ b.id = currentAbortController
    /\ ~b.aborted
    /\ isLoadingSuggestion

\* C2: the settlement of a call that was cancelled writes nothing to the
\* suggestion cache and does not change the displayed suggestion; no cache
\* entry ever holds a cancelled result.
C2_CancelledNeverCachedNorShown ==
  [][\A c \in calls : \A outcome \in Outcomes(c) :
       (c.aborted /\ Settles(c, outcome))
         => /\ UNCHANGED << suggestionCache, currentSuggestion, isVisible >>
            /\ \A i \in 1..Len(suggestionCache') :
                 ~suggestionCache'[i].result[1].cancelled]_vars

\* A cancelled call has not settled yet, nothing is cached for its context
\* and no newer call has been started.
C2_Witness ==
  \E c \in calls :
    /\ c.aborted
    /\ currentAbortController = 0
    /\ cacheGet(suggestionCache, c.context) = << >>

\* C3: at most one service call that has not been aborted is outstanding.
C3_OneLiveCall ==
  Cardinality({ c \in calls : ~c.aborted }) <= 1

\* A new call has been started while the previous one was outstanding: the
\* previous one is aborted and both are in flight.
C3_Witness ==
  /\ Cardinality(calls) = 2
  /\ Cardinality({ c \in calls : c.aborted }) = 1

\* C4: every qualifying event on the tracked surface leaves exactly one
\* debounce timer pending, due 300 ms after the event and holding the
\* context of the surface as of the event.
C4_DebounceCollapsing ==
  [][\A threw \in BOOLEAN :
       ( /\ focusedElement \in inDom
         /\ ~isInsertingSuggestion
         /\ ~isCommandMode
         /\ UpdateEvent(threw) )
         => /\ Cardinality(DebounceTimers') = 1
            /\ \A t \in DebounceTimers' :
                 /\ t.left = Ticks(TYPE_DELAY_MS)
                 /\ t.context = << getEditorContext(World, focusedElement) >>]_vars

\* C5: a request for a context for which an earlier service call is still
\* outstanding does not call the service again.
C5_CacheDedup ==
  [][\A t \in timers :
       ( /\ TimerFires(t, FALSE)
         /\ TimerFiresResult(t, FALSE).fx.request # << >>
         /\ \E c \in calls :
              << c.context >> = TimerFiresResult(t, FALSE).fx.request )
         => ~TimerFiresResult(t, FALSE).fx.called]_vars

\* C6: a Tab keydown inserts text only in SuggestionVisible with the tracked
\* surface as its target; in every other state it inserts nothing and
\* changes no state.
C6_TabOnlyWhenVisible ==
  [][KeyDown("Tab")
       => \/ SuggestionVisible /\ activeElement = focusedElement
          \/ KeyDownResult("Tab").fx.insert = << >> /\ UNCHANGED vars]_vars

\* C7: a suggestion accepted with Tab is inserted by the adapter's
\* setCursorAndInsert.
C7_TabInsertsAtFetchOffsets ==
  [][(KeyDown("Tab") /\ KeyDownResult("Tab").fx.insert # << >>)
       => KeyDownResult("Tab").fx.insert[1].via = "setCursorAndInsert"]_vars

\* C8: a debounce timer that fires issues a request only if the active
\* element is the tracked surface and the context it holds was computed
\* from that surface; otherwise it issues none and changes no state.
C8_TimerChecksSurface ==
  [][\A t \in DebounceTimers : \A threw \in BOOLEAN :
       TimerFires(t, threw)
         => IF TimerFiresResult(t, threw).fx.request # << >>
            THEN /\ focusedElement # NoElement
                 /\ activeElement = focusedElement
                 /\ t.context[1].element = focusedElement
            ELSE UNCHANGED << focusedElement, currentAdapter, cursorData,
                              currentSuggestion, isLoadingSuggestion,
                              isInsertingSuggestion, isCommandMode, isVisible,
                              error, currentAbortController, suggestionCache,
                              calls, activeElement, surface, inDom >>]_vars

C10_CommandModeFrozen ==
  [][(isCommandMode /\ isCommandMode')
       => UNCHANGED << cursorData, focusedElement, currentAdapter >>]_vars

\* C11: FIFO eviction. A set or setPromise never leaves more than maxSize
\* entries; for a key already present the order of the keys stays as it
\* was, and for a new key the keys left are the last maxSize of the old
\* keys followed by the new one, so the entries dropped are those inserted
\* first. A get leaves the entries and their order alone.
C11_FifoEviction ==
  [][\A k \in Requests :
       /\ ((\E v \in Values : CacheSet(k, v)) \/ CacheSetPromise(k))
            => LET old == Keys(unit.cache)
                   cacheKey == generateKey(k)
                   all == IF cacheIndex(unit.cache, cacheKey) # 0
                          THEN old ELSE Append(old, cacheKey)
                   kept == Min(unit.maxSize, Len(all))
               IN  /\ Len(unit.cache') <= unit.maxSize
                   /\ Keys(unit.cache')
                        = SubSeq(all, Len(all) - kept + 1, Len(all))
       /\ CacheGet(k) => unit.cache' = unit.cache]_vars

\* With maxSize 2, a third key C has just been inserted after B: the key
\* inserted before B was dropped and exactly B and C are left.
C11_Witness ==
  \E B \in Requests : \E C \in Requests :
    /\ unit.maxSize = 2
    /\ B # C
    /\ Keys(unit.cache) = << generateKey(B), generateKey(C) >>
    /\ unit.last = "evicted"

C13_FingerprintStable ==
  [][\A k \in Requests : \A v \in Values :
       CacheSet(k, v)
         => \A r \in Requests :
              /\ (generateKey(r) = generateKey(k)) <=> (r = k)
              /\ IF r = k
                 THEN cacheGet(unit.cache', r) = << v >>
                 ELSE /\ cacheGet(unit.cache', r)
                           \in { cacheGet(unit.cache, r), << >> }
                      /\ cacheGetPromise(unit.cache', r)
                           \in { cacheGetPromise(unit.cache, r), 0 }]_vars

\* Two requests with the same full text and different carets are held under
\* two keys, and a get has just returned a stored result.
C13_Witness ==
  \E r1 \in Requests : \E r2 \in Requests :
    /\ r1 # r2
    /\ r1.fullText = r2.fullText
    /\ cacheGet(unit.cache, r1) # << >>
    /\ cacheGet(unit.cache, r2) # << >>
    /\ Len(unit.cache) = 2
    /\ unit.last = "result"

\* C14: whatever was registered and in whatever order, findAdapter returns
\* null when no registered adapter can handle the element, and otherwise an
\* adapter that can handle it and whose priority no other registered
\* adapter that can handle it exceeds.
C14_HighestPriorityFound ==
  [][\A element \in Targets :
       FindAdapter(element)
         => LET result == unit'.found[1].adapter
                able == { i \in 1..Len(unit.adapters) :
                            canHandle(unit.adapters[i], element) }
            IN  IF able = {} THEN result = << >>
                ELSE /\ result # << >>
                     /\ \E i \in able : unit.adapters[i] = result[1]
                     /\ \A i \in able :
                          unit.adapters[i].priority <= result[1].priority]_vars

\* An adapter of priority 0 was registered before one of priority 15, both
\* can handle the element looked up, and the one of priority 15 was found.
C14_Witness ==
  /\ unit.found # << >>
  /\ unit.found[1].adapter # << >>
  /\ unit.found[1].adapter[1].priority = 15
  /\ \E i \in 1..Len(unit.adapters) :
       /\ unit.adapters[i].priority = 0
       /\ canHandle(unit.adapters[i], unit.found[1].element)
       /\ unit.adapters[i].id < unit.found[1].adapter[1].id

\* C15: the adapter list is sorted by non-increasing priority with adapters
\* of equal priority in the order of their registration, and findAdapter
\* returns the first registered among the matching adapters of the highest
\* priority.
C15_SortedStable ==
  /\ \A i \in 1..Len(unit.adapters) : \A j \in (i + 1)..Len(unit.adapters) :
       /\ unit.adapters[i].priority >= unit.adapters[j].priority
       /\ unit.adapters[i].priority = unit.adapters[j].priority
            => unit.adapters[i].id < unit.adapters[j].id
  /\ \A element \in Targets :
       LET result == findAmong(unit.adapters, element)
       IN  result # << >>
             => \A i \in 1..Len(unit.adapters) :
                  (/\ canHandle(unit.adapters[i], element)
                   /\ unit.adapters[i].priority = result[1].priority)
                    => result[1].id <= unit.adapters[i].id

\* Two adapters of one priority that both match were registered with an
\* adapter of another priority between them, and the lookup found the one
\* registered first.
C15_Witness ==
  /\ Len(unit.adapters) = 3
  /\ unit.found # << >>
  /\ unit.found[1].adapter # << >>
  /\ unit.found[1].adapter[1].id = 1
  /\ \E i \in 1..3 : \E j \in 1..3 :
       /\ unit.adapters[i].id = 3
       /\ unit.adapters[i].priority = unit.found[1].adapter[1].priority
       /\ canHandle(unit.adapters[i], unit.found[1].element)
       /\ unit.adapters[j].id = 2
       /\ unit.adapters[j].priority # unit.adapters[i].priority

\* C16: every context HtmlInputAdapter.getEditorContext returns satisfies
\* the surface context invariant, whatever the value and the native
\* selection, a null selection included: textBefore, textSelected and
\* textAfter joined give fullText, and
\* 0 <= selectionStart <= selectionEnd <= length of fullText.
C16_InputContextInvariant ==
  unit.context # << >>
    => LET c == unit.context[1]
       IN  /\ c.textBefore \o c.textSelected \o c.textAfter = c.fullText
           /\ 0 <= c.selectionStart
           /\ c.selectionStart <= c.selectionEnd
           /\ c.selectionEnd <= Len(c.fullText)

\* A context was read from an input that holds text and has no selection:
\* its offsets are 0 and the whole value is textAfter.
C16_Witness ==
  /\ unit.context # << >>
  /\ unit.inserted = << >>
  /\ unit.input.selectionStart = NoSelection
  /\ unit.context[1].fullText # EmptyText
  /\ unit.context[1].textAfter = unit.context[1].fullText
  /\ unit.context[1].selectionEnd = 0

\* C19: flat-value round trip. After setCursorAndInsert with the offsets of
\* the context getEditorContext returned and a text T, on each of the three
\* insertion paths, the value is textBefore, T and textAfter joined and
\* the caret is collapsed right after T.
C19_FlatRoundTrip ==
  (unit.context # << >> /\ unit.inserted # << >>)
    => LET c == unit.context[1]
           T == unit.inserted[1].text
       IN  /\ unit.input.value = c.textBefore \o T \o c.textAfter
           /\ unit.input.selectionStart = c.selectionStart + Len(T)
           /\ unit.input.selectionEnd = c.selectionStart + Len(T)

\* C17: for every line structure and every native range whose containers
\* are text nodes or line elements, and with no selection, the context of
\* OverleafAdapter.getEditorContext has textBefore, textSelected and
\* textAfter joining to fullText and 0 <= selectionStart <= selectionEnd
\* <= the length of fullText.
C17_OverleafContextInvariant ==
  (unit.component = "overleaf" /\ unit.context # << >>)
    => LET c == unit.context[1]
       IN  /\ c.textBefore \o c.textSelected \o c.textAfter = c.fullText
           /\ 0 <= c.selectionStart
           /\ c.selectionStart <= c.selectionEnd
           /\ c.selectionEnd <= Len(c.fullText)

\* C20: setSelection(s, e) with 0 <= s <= e <= the length of the text adds
\* a range, and getSelectionOffsets on that range gives back s and e.
C20_SelectionRoundTrip ==
  (/\ unit.component = "overleaf"
   /\ Len(unit.lines) >= 1
   /\ unit.set # << >>
   /\ unit.set[1].end <= Len(getFullTextWithNewlines(unit.lines)))
    => /\ unit.set[1].ok
       /\ unit.selection # << >>
       /\ getSelectionOffsets(unit.lines, unit.selection[1])
            = [ start |-> unit.set[1].start, end |-> unit.set[1].end ]
       /\ unit.context # << >>
            => /\ unit.context[1].selectionStart = unit.set[1].start
               /\ unit.context[1].selectionEnd = unit.set[1].end

\* A selection was set from inside a line of two text nodes to an empty
\* line after it, and the context was read back.
C20_Witness ==
  /\ unit.component = "overleaf"
  /\ unit.set # << >>
  /\ unit.context # << >>
  /\ unit.set[1].start = 1
  /\ unit.set[1].end = 3
  /\ Len(unit.lines) = 2
  /\ Len(unit.lines[1]) = 2
  /\ unit.lines[2] = << >>
  /\ unit.selection[1].end = Point(2, 0, 0)

\* C18: every context GmailAdapter.getEditorContext returns, for a
\* selection inside the editable region and with no selection, has
\* textBefore, textSelected and textAfter joining to fullText and
\* 0 <= selectionStart <= selectionEnd <= the length of fullText.
C18_GmailContextInvariant ==
  (unit.component = "gmail" /\ unit.context # << >>)
    => LET c == unit.context[1]
       IN  /\ c.textBefore \o c.textSelected \o c.textAfter = c.fullText
           /\ 0 <= c.selectionStart
           /\ c.selectionStart <= c.selectionEnd
           /\ c.selectionEnd <= Len(c.fullText)

\* The sum of the lengths of the lines' texts.
RECURSIVE C21_SumOfLengths(_)
C21_SumOfLengths(lines) ==
  IF lines = << >> THEN 0
  ELSE Len(textContent(Head(lines))) + C21_SumOfLengths(Tail(lines))

\* C21: newline accounting. With N >= 1 lines the length of fullText is the
\* sum of the lines' lengths plus N - 1, and the offset counters of
\* getSelectionOffsets and of setSelection hold that total when their loops
\* have run past the last line.
C21_NewlineAccounting ==
  (unit.component = "overleaf" /\ Len(unit.lines) >= 1)
    => LET total == C21_SumOfLengths(unit.lines) + Len(unit.lines) - 1
       IN  /\ Len(getFullTextWithNewlines(unit.lines)) = total
           /\ unit.context # << >> => Len(unit.context[1].fullText) = total
           /\ (unit.walked # << >> /\ unit.walked[1].finished)
                => unit.walked[1].offset = total
           /\ (unit.set # << >> /\ ~unit.set[1].ok)
                => unit.set[1].totalLength = total

\* Both loops ran past the last of two lines, the second one empty: a
\* setSelection beyond the text failed and getSelectionOffsets walked a
\* range that lies outside the editor.
C21_Witness ==
  /\ unit.component = "overleaf"
  /\ Len(unit.lines) = 2
  /\ unit.lines[2] = << >>
  /\ Len(unit.lines[1]) = 2
  /\ unit.set # << >>
  /\ ~unit.set[1].ok
  /\ unit.set[1].totalLength = 3
  /\ unit.walked # << >>
  /\ unit.walked[1].finished
  /\ unit.walked[1].offset = 3

SettleTimers == { t \in timers : t.kind = "settle" }

C23_FocusOutToIdle ==
  /\ [](\A el \in Elements \cup {Body} :
          (el # focusedElement \/ isCommandMode)
            => onFocusOut(Begin, el) = Begin)
  /\ [][(FocusOut /\ activeElement = focusedElement /\ ~isCommandMode)
          => /\ focusedElement' = NoElement
             /\ currentAdapter' = NoAdapter
             /\ cursorData' = << >>
             /\ ~isVisible'
             /\ ~isCommandMode'
             /\ ~isLoadingSuggestion'
             /\ ~error'
             /\ currentSuggestion' = EmptyText
             /\ suggestionTimeout' = 0
             /\ DebounceTimers' = {}
             /\ currentAbortController' = 0
             /\ \A c \in calls' : c.aborted]_vars

\* The focus has left the tracked surface while a request was outstanding:
\* the engine is Idle and the call is aborted.
C23_Witness ==
  /\ focusedElement = NoElement
  /\ activeElement = Body
  /\ cursorData = << >>
  /\ calls # {}
  /\ \A c \in calls : c.aborted
  /\ ~isLoadingSuggestion
  /\ ~isVisible
  /\ timers = {}

\* Escape pressed with the given target.
C24_Escape == onKeyDown(Begin, "Escape", activeElement)

\* C24: Escape pressed while the overlay is visible or in CommandMode ends
\* with the overlay hidden and CommandMode off, the tracked surface and
\* adapter unchanged, no request issued and no timer started; pressed when
\* nothing is visible and not in CommandMode it changes nothing.
C24_EscapeDismisses ==
  /\ [](IF isVisible \/ isCommandMode
        THEN /\ ~C24_Escape.isVisible
             /\ ~C24_Escape.isCommandMode
             /\ C24_Escape.focusedElement = focusedElement
             /\ C24_Escape.currentAdapter = currentAdapter
             /\ C24_Escape.fx.request = << >>
             /\ ~C24_Escape.fx.called
             /\ C24_Escape.fx.insert = << >>
             /\ C24_Escape.timers \subseteq timers
             /\ Cardinality(C24_Escape.calls) = Cardinality(calls)
        ELSE C24_Escape = Begin)
  /\ [][KeyDown("Escape")
          => /\ ~isVisible'
             /\ ~isCommandMode'
             /\ UNCHANGED << focusedElement, currentAdapter, surface >>
             /\ timers' \subseteq timers]_vars

\* Escape was pressed while a request was loading: the surface is still
\* tracked and focused, the overlay is hidden, the call is aborted and no
\* timer is pending.
C24_Witness ==
  /\ focusedElement = "e1"
  /\ activeElement = "e1"
  /\ ~isVisible
  /\ ~isCommandMode
  /\ ~isLoadingSuggestion
  /\ ~isInsertingSuggestion
  /\ calls # {}
  /\ \A c \in calls : c.aborted
  /\ timers = {}
  /\ Len(surface["e1"].value) = 3

\* C25: when a response that is not cancelled arrives in Loading, loading
\* is cleared, the suggestion and the error flag are those of the response
\* and isVisible holds afterwards exactly if a surface is tracked and the
\* response has text or the error flag; a response without text and
\* without the error flag leaves the overlay hidden.
C25_ResponseVisibility ==
  [][\A c \in calls : \A outcome \in Outcomes(c) :
       ( /\ isLoadingSuggestion
         /\ ~isCommandMode
         /\ outcome.kind # "aborted"
         /\ Settles(c, outcome) )
         => /\ ~isLoadingSuggestion'
            /\ currentSuggestion' = outcome.text
            /\ error' = (outcome.kind = "failed")
            /\ isVisible' = ( /\ focusedElement # NoElement
                              /\ (outcome.text # EmptyText
                                    \/ outcome.kind = "failed") )
            /\ (outcome.text = EmptyText /\ outcome.kind # "failed")
                 => ~isVisible']_vars

\* A response without text and without the error flag has arrived: it is
\* cached, nothing is loading and the overlay is hidden on the tracked
\* surface.
C25_Witness ==
  /\ focusedElement = "e1"
  /\ ~isVisible
  /\ ~isLoadingSuggestion
  /\ ~isCommandMode
  /\ ~error
  /\ calls = {}
  /\ Len(suggestionCache) = 1
  /\ suggestionCache[1].result[1].suggestion = EmptyText
  /\ timers = {}

\* C26: a response carrying the error flag leaves the overlay visible with
\* error set and the suggestion empty, the surface and adapter tracked as
\* before, and starts neither a request nor a timer; while error is set the
\* suggestion is empty, so that Tab inserts nothing.
C26_ErrorState ==
  /\ [](error => /\ currentSuggestion = EmptyText
                  /\ KeyDownResult("Tab").fx.insert = << >>)
  /\ [][\A c \in calls : \A outcome \in Outcomes(c) :
          (outcome.kind = "failed" /\ Settles(c, outcome))
            => /\ isVisible'
               /\ error'
               /\ currentSuggestion' = EmptyText
               /\ ~isLoadingSuggestion'
               /\ focusedElement # NoElement
               /\ UNCHANGED << focusedElement, currentAdapter, timers,
                               suggestionTimeout, suggestionCache >>
               /\ Cardinality(calls') = Cardinality(calls) - 1
               /\ RespondResult(c, outcome).fx.request = << >>
               /\ ~RespondResult(c, outcome).fx.called]_vars

\* The engine is in Error on the tracked surface: the overlay shows the
\* failure, nothing is loading, no call is outstanding and no timer is
\* pending.
C26_Witness ==
  /\ error
  /\ isVisible
  /\ ~isCommandMode
  /\ ~isLoadingSuggestion
  /\ focusedElement = "e1"
  /\ activeElement = "e1"
  /\ currentSuggestion = EmptyText
  /\ calls = {}
  /\ timers = {}

RetryTimers == { t \in timers : t.kind = "retry" }

\* C27: a read that throws in updateCursor starts the 200 ms retry timer
\* and changes nothing else; when the timer fires the computation is run
\* again if the tracked element is still the active element, and otherwise
\* the surface is dropped from tracking.
C27_RetryOrDrop ==
  [][/\ ( /\ focusedElement \in inDom
          /\ ~isInsertingSuggestion
          /\ ~isCommandMode
          /\ UpdateEvent(TRUE) )
          => \E t \in RetryTimers' : t.left = Ticks(RETRY_DELAY_MS)
     /\ \A t \in RetryTimers : \A threw \in BOOLEAN :
          TimerFires(t, threw)
            => IF focusedElement # NoElement /\ activeElement = focusedElement
               THEN threw \/ focusedElement \notin inDom
                      \/ cursorData'
                           = << CursorPositionOf(
                                  getCursorPosition(World, focusedElement),
                                  getEditorContext(World, focusedElement)) >>
               ELSE /\ focusedElement' = NoElement
                    /\ currentAdapter' = NoAdapter]_vars

\* What Accept and Reject of the command view do, apart from the offsets
\* being the frozen ones: Accept inserts its text into the tracked surface
\* through setCursorAndInsert at the offsets of cursorData, Reject inserts
\* nothing, and both leave CommandMode with the overlay hidden, the
\* suggestion empty and the surface tracked.
C28_AcceptAndReject ==
  /\ \A text \in Suggestions :
       OverlayAccept(text, FALSE)
         => /\ cursorData # << >>
            /\ OverlayAcceptResult(text, FALSE).fx.insert
                 = << [ element |-> focusedElement,
                        start |-> cursorData[1].selectionStart,
                        end |-> cursorData[1].selectionEnd,
                        text |-> text, via |-> "setCursorAndInsert" ] >>
            /\ ~isCommandMode'
            /\ ~isVisible'
            /\ currentSuggestion' = EmptyText
            /\ UNCHANGED << focusedElement, currentAdapter >>
  /\ OverlayReject
       => /\ OverlayRejectResult.fx.insert = << >>
          /\ ~isCommandMode'
          /\ ~isVisible'
          /\ currentSuggestion' = EmptyText
          /\ UNCHANGED << focusedElement, currentAdapter, surface >>

\* C28: in CommandMode, Accept inserts the working suggestion through
\* setCursorAndInsert at the selectionStart and selectionEnd frozen when
\* CommandMode was entered, on the tracked surface, and leaves CommandMode
\* with the UI cleared; Reject inserts nothing, clears the UI and leaves
\* CommandMode; the surface stays tracked. The offsets are the frozen ones
\* when no step inside CommandMode changes them or the tracked surface.
C28_CommandAcceptReject ==
  [][/\ C28_AcceptAndReject
     /\ (isCommandMode /\ isCommandMode')
          => /\ focusedElement' = focusedElement
             /\ cursorData'[1].selectionStart = cursorData[1].selectionStart
             /\ cursorData'[1].selectionEnd = cursorData[1].selectionEnd]_vars

C30_OneRewriteAtATime ==
  /\ [](unit.component = "command" =>
          /\ Cardinality(unit.requests) <= 1
          /\ unit.mounted => (unit.isIterating <=> unit.requests # {})
          /\ (unit.mounted /\ ~unit.isIterating
                /\ unit.rewrites < MaxRewrites)
               => /\ ENABLED SetIterationPrompt(<< "p" >>)
                  /\ Trim(unit.iterationPrompt) # EmptyText
                       => ENABLED ClickIterate)
  /\ [][ unit.component = "command" =>
           /\ unit'.suggestion = unit.suggestion
           /\ currentSuggestion' = currentSuggestion
           /\ (unit.mounted /\ unit.isIterating)
                => /\ unit'.requests \subseteq unit.requests
                   /\ unit'.accepted = unit.accepted
                   /\ unit'.iterationPrompt \in
                        { unit.iterationPrompt, EmptyText }
      ]_vars

\* A response that arrives at a mounted view.
C30_Response ==
  /\ unit.component = "command"
  /\ unit.mounted
  /\ unit'.requests # unit.requests
  /\ unit'.requests \subseteq unit.requests

\* C30 (as amended): a rewrite response with a suggestion text and no error
\* replaces the working suggestion with that text, an empty or failed
\* response leaves the working suggestion as it was; the auto-suggestion
\* is not touched, while a rewrite is outstanding no second one can be
\* started and Accept is disabled, and the loop can be repeated.
C30_GuidedRewriteKeepsOnEmpty ==
  /\ C30_OneRewriteAtATime
  /\ [][ C30_Response =>
           /\ unit'.result # << >>
           /\ unit'.currentSuggestion =
                IF unit'.result[1].suggestion # EmptyText
                     /\ ~unit'.result[1].error
                THEN unit'.result[1].suggestion
                ELSE unit.currentSuggestion
           /\ ~unit'.isIterating
      ]_vars

\* C30: each rewrite response replaces the working suggestion with the
\* response's suggestion text, without touching the auto-suggestion; while
\* a rewrite is outstanding no second one can be started and Accept is
\* disabled, and the loop can be repeated.
C30_GuidedRewrite ==
  /\ C30_OneRewriteAtATime
  /\ [][ C30_Response =>
           /\ unit'.result # << >>
           /\ unit'.currentSuggestion = unit'.result[1].suggestion
           /\ ~unit'.isIterating
      ]_vars

\* A second rewrite was answered with a text, which is the working
\* suggestion now, after an answer without text had left the first
\* working suggestion in place.
C30_Witness ==
  /\ unit.component = "command"
  /\ unit.mounted
  /\ unit.rewrites = 2
  /\ unit.result # << >>
  /\ unit.result[1].suggestion # EmptyText
  /\ unit.currentSuggestion = unit.result[1].suggestion
  /\ unit.currentSuggestion # unit.suggestion
  /\ unit.currentSuggestion # unit.textSelected
  /\ ~unit.isIterating

\* C31: the working suggestion a command view starts with, and keeps until
\* a rewrite is answered, is the text that was selected in the surface when
\* the chord was pressed if there was one, otherwise the auto-suggestion
\* the tracker held then, which may be empty.
C31_WorkingSuggestionSeed ==
  (unit.component = "command" /\ unit.result = << >>) =>
    LET input == unit.activation.input
        selected == Slice(input.value, input.selectionStart,
                          input.selectionEnd)
    IN  /\ activate(input, unit.activation.suggestion).isCommandMode
        /\ unit.currentSuggestion = IF selected # EmptyText THEN selected
                                    ELSE unit.activation.suggestion

\* A view that started from the selected text although the tracker held
\* an auto-suggestion.
C31_Witness ==
  /\ unit.component = "command"
  /\ unit.result = << >>
  /\ unit.activation.suggestion = << "b" >>
  /\ unit.currentSuggestion = << "a" >>

\* The request the debounce callback would make for a surface as it is.
C32_ContextOf(el) == SuggestionContextOf(getEditorContext(Begin, el))

\* C32: for a context whose textBefore, trimmed, has fewer than 3
\* characters getSuggestion calls no service and aborts nothing, and its
\* result is an empty suggestion without the error or the cancelled flag;
\* the tracker that asked ends the step with the overlay hidden, nothing
\* loading and no suggestion.
C32_ShortTextNoCall ==
  /\ [](\A el \in Elements :
          Len(Trim(C32_ContextOf(el).textBefore)) < MIN_TEXT_LENGTH
            => LET asked == getSuggestion(Begin, C32_ContextOf(el))
               IN  /\ ~asked.fx.called
                   /\ asked.calls = calls
                   /\ asked.currentAbortController = currentAbortController
                   /\ asked.currentSuggestion = EmptyText
                   /\ ~asked.error
                   /\ ~asked.isVisible
                   /\ ~asked.isLoadingSuggestion
                   /\ cacheGet(asked.suggestionCache, C32_ContextOf(el))
                        = << Response(EmptyText, FALSE, FALSE) >>)
  /\ [][\A t \in DebounceTimers : \A threw \in BOOLEAN :
          ( /\ TimerFires(t, threw)
            /\ TimerFiresResult(t, threw).fx.request # << >>
            /\ Len(Trim(TimerFiresResult(t, threw).fx.request[1].textBefore))
                 < MIN_TEXT_LENGTH )
            => /\ ~TimerFiresResult(t, threw).fx.called
               /\ Cardinality(calls') = Cardinality(calls)
               /\ ~isVisible'
               /\ ~isLoadingSuggestion'
               /\ currentSuggestion' = EmptyText
               /\ ~error']_vars

\* The debounce timer of the second surface, whose text is too short, has
\* fired: the empty answer is cached, no call is outstanding and the
\* overlay is hidden.
C32_Witness ==
  /\ focusedElement = "e2"
  /\ activeElement = "e2"
  /\ Len(Trim(C32_ContextOf("e2").textBefore)) < MIN_TEXT_LENGTH
  /\ cacheGet(suggestionCache, C32_ContextOf("e2")) # << >>
  /\ calls = {}
  /\ timers = {}
  /\ ~isVisible
  /\ ~isLoadingSuggestion

\* The context a request was made for is the one the tracker holds.
C33_Holds(context, held) ==
  /\ held # << >>
  /\ context.textBefore = held[1].textBefore
  /\ context.textSelected = held[1].textSelected
  /\ context.textAfter = held[1].textAfter

\* C33: whenever the overlay shows a suggestion, the suggestion was
\* requested for the context the tracker holds. A step that ends with a
\* suggestion shown either kept the suggestion that was shown and the
\* context it was shown for, or is the arrival of a response, from the
\* service or from the cache, to a request made for the context held
\* after the step.
C33_ShownForHeldContext ==
  [][SuggestionVisible' =>
       \/ /\ SuggestionVisible
          /\ currentSuggestion' = currentSuggestion
          /\ cursorData # << >>
          /\ C33_Holds(cursorData[1], cursorData')
       \/ \E c \in calls : \E outcome \in Outcomes(c) :
            /\ Settles(c, outcome)
            /\ ~c.aborted
            /\ outcome.text = currentSuggestion'
            /\ C33_Holds(c.context, cursorData')
       \/ \E t \in DebounceTimers :
            /\ TimerFires(t, FALSE)
            /\ TimerFiresResult(t, FALSE).fx.request # << >>
            /\ C33_Holds(TimerFiresResult(t, FALSE).fx.request[1],
                         cursorData')]_vars

\* C34: whenever the overlay is visible in suggestion mode it has
\* something to show: the tracker is loading, or error is set, or the
\* suggestion is not empty.
C34_NothingEmptyShown ==
  (isVisible /\ ~isCommandMode)
    => (isLoadingSuggestion \/ error \/ currentSuggestion # EmptyText)

\* C35: while no surface is tracked the tracker holds no adapter and no
\* cursorData, the overlay is hidden, the tracker is neither in command
\* mode nor loading, the suggestion is empty, no debounce timer is pending
\* and every call still outstanding has been aborted.
C35_IdleQuiescent ==
  focusedElement = NoElement
    => /\ currentAdapter = NoAdapter
       /\ cursorData = << >>
       /\ ~isVisible
       /\ ~isCommandMode
       /\ ~isLoadingSuggestion
       /\ currentSuggestion = EmptyText
       /\ DebounceTimers = {}
       /\ \A c \in calls : c.aborted

\* The surface lost the focus while a request was outstanding: nothing is
\* tracked and the call, aborted, has not settled yet.
C35_Witness ==
  /\ focusedElement = NoElement
  /\ activeElement = Body
  /\ calls # {}
  /\ currentAbortController = 0

\* C36: a call that is outstanding and not aborted is the call the abort
\* handle belongs to, so that cancelCurrentSuggestionRequest leaves no
\* call unaborted; the settlement of a call the handle does not belong
\* to, whatever its outcome, leaves the handle with the call it belongs
\* to.
C36_HandleOfNewestCall ==
  /\ [](/\ \A c \in calls : ~c.aborted => c.id = currentAbortController
        /\ \A c \in cancelCurrentSuggestionRequest(Begin).calls : c.aborted
        /\ cancelCurrentSuggestionRequest(Begin).currentAbortController = 0)
  /\ [][\A c \in calls : \A outcome \in Outcomes(c) :
          (c.id # currentAbortController /\ Settles(c, outcome))
            => /\ currentAbortController'
                   = Renumbered(currentAbortController, c.id)
               /\ \A d \in calls \ {c} :
                    d.id = currentAbortController
                      => [d EXCEPT !.id = currentAbortController'] \in calls'
         ]_vars

\* An older call, aborted, and a newer one under the abort handle are
\* both outstanding.
C36_Witness ==
  \E older \in calls : \E newer \in calls :
    /\ older.id < newer.id
    /\ older.aborted
    /\ ~newer.aborted
    /\ newer.id = currentAbortController

\* The entry that setPromise created for promise p is still in the cache.
C37_OwnEntry(p) ==
  LET i == cacheIndex(unit.cache, generateKey(p.key))
  IN  /\ i # 0
      /\ unit.cache[i].result = << >>
      /\ unit.cache[i].promise = p.id

\* C37: the settlement of a promise handed to setPromise changes only the
\* entry created for it: when that entry has been replaced or evicted, the
\* fulfilment or rejection leaves the cache as it is.
C37_SettlementOwnEntryOnly ==
  [][\A p \in unit.promises :
       ( /\ ~C37_OwnEntry(p)
         /\ (PromiseRejects(p) \/ \E v \in Values : PromiseFulfils(p, v)) )
         => unit'.cache = unit.cache]_vars

\* C38: after destroy no step of the tracker calls the overlay's render,
\* starts a debounce timer or requests a suggestion, whatever timers or
\* responses were pending.
C38_InertAfterDestroy ==
  [][unit.destroyed =>
       /\ \A t \in timers : \A threw \in BOOLEAN :
            TimerFiresDestroyed(t, threw)
              => /\ ~TimerFiresDestroyedResult(t, threw).fx.render
                 /\ TimerFiresDestroyedResult(t, threw).fx.request = << >>
       /\ \A c \in calls : \A outcome \in Outcomes(c) :
            Respond(c, outcome) => ~RespondResult(c, outcome).fx.render
       /\ { t \in timers' : t.kind = "debounce" }
            \subseteq { t \in timers : t.kind = "debounce" }]_vars

\* C39: loading always ends. With a service that settles every call,
\* every state in which isLoadingSuggestion is true is followed by a state
\* in which it is false, whatever the user, the page, the timers and the
\* cancellations do in between.
C39_LoadingEnds == isLoadingSuggestion ~> ~isLoadingSuggestion

\* A request is issued while the tracker is loading: the call that was
\* awaited is aborted and a new one is awaited in its place.
Supersedes ==
  isLoadingSuggestion /\ Cardinality(calls') > Cardinality(calls)

\* Loading ends in every behaviour in which the awaited request is
\* superseded finitely often only.
LoadingEndsUnlessSuperseded ==
  <>[][~Supersedes]_vars => (isLoadingSuggestion ~> ~isLoadingSuggestion)

\* Whenever isLoadingSuggestion is true a call that has not been aborted is
\* outstanding.
LoadingAwaitsCall == isLoadingSuggestion => \E c \in calls : ~c.aborted

\* A response that is not cancelled and holds a text arrives: the service
\* answers a call that was not aborted with a suggestion, or the debounce
\* callback finds one in the cache.
C40_ResponseArrives ==
  \/ \E c \in calls : \E outcome \in Outcomes(c) :
       /\ ~c.aborted
       /\ outcome.kind = "suggestion"
       /\ outcome.text # EmptyText
       /\ Respond(c, outcome)
  \/ \E t \in timers :
       /\ t.kind = "debounce"
       /\ cacheGet(suggestionCache, SuggestionContextOf(t.context[1])) # << >>
       /\ TimerFires(t, FALSE)

\* C40: a response is inserted at most once. The step in which the accept
\* key inserts the suggestion leaves the suggestion text empty and no
\* request alive; while the text is empty the accept key inserts nothing;
\* and the text stops being empty only when a response that is not
\* cancelled and holds a text arrives.
C40_InsertedAtMostOnce ==
  [][/\ (KeyDown("Tab") /\ KeyDownResult("Tab").fx.insert # << >>)
          => /\ currentSuggestion' = EmptyText
             /\ \A c \in calls' : c.aborted
     /\ currentSuggestion = EmptyText
          => KeyDownResult("Tab").fx.insert = << >>
     /\ (currentSuggestion = EmptyText /\ currentSuggestion' # EmptyText)
          => C40_ResponseArrives]_vars

\* The accept key has just inserted a suggestion: the settle timer is
\* still pending and the suggestion text is empty.
C40_Witness ==
  /\ isInsertingSuggestion
  /\ currentSuggestion = EmptyText
  /\ \E t \in timers : t.kind = "settle"
  /\ focusedElement # NoElement
  /\ activeElement = focusedElement

====
